---- MODULE Spec2Model ----
(***************************************************************************)
(* A model of the MCP clients of this repository: the agentic loop         *)
(* (process_query) of client.py and openai_client.py, the session requests *)
(* it issues, and the elicitation handler (handle_elicitation) both        *)
(* clients register with the session.                                      *)
(*                                                                         *)
(* Text the programs inspect character by character (the operator's input  *)
(* lines, the text blocks that are joined into the final answer) is a      *)
(* sequence of one-character strings.  Names that are only compared as a   *)
(* whole (tool names, roles, stop reasons) are TLA+ strings.               *)
(***************************************************************************)
EXTENDS Integers, Sequences, FiniteSets, TLC

(***************************************************************************)
(* Bounds of the model.                                                    *)
(***************************************************************************)
\* Fields of an elicitation schema.
MaxFields == 2
\* Content blocks the model API returns over one process_query run.
MaxBlocks == 3

(***************************************************************************)
(* Python values and text.                                                 *)
(***************************************************************************)
\* A Python value stored in user_data: str, int, float (num / 10^scale) or bool.
StrVal(s) == [kind |-> "str", s |-> s, n |-> 0, scale |-> 0, b |-> FALSE]
IntVal(n) == [kind |-> "int", s |-> <<>>, n |-> n, scale |-> 0, b |-> FALSE]
BoolVal(b) == [kind |-> "bool", s |-> <<>>, n |-> 0, scale |-> 0, b |-> b]

RECURSIVE FloatVal(_, _)
\* float: the decimal num / 10^scale in lowest terms of ten.
FloatVal(num, scale) ==
    IF scale > 0 /\ num % 10 = 0
    THEN FloatVal(num \div 10, scale - 1)
    ELSE [kind |-> "float", s |-> <<>>, n |-> num, scale |-> scale, b |-> FALSE]

Digits == {"0", "1", "2", "3", "4", "5", "6", "7", "8", "9"}

DigitVal(c) ==
    CASE c = "0" -> 0 [] c = "1" -> 1 [] c = "2" -> 2 [] c = "3" -> 3
      [] c = "4" -> 4 [] c = "5" -> 5 [] c = "6" -> 6 [] c = "7" -> 7
      [] c = "8" -> 8 [] c = "9" -> 9

Whitespace == {" "}

RECURSIVE LStrip(_)
LStrip(s) == IF s # <<>> /\ Head(s) \in Whitespace THEN LStrip(Tail(s)) ELSE s

RECURSIVE RStrip(_)
RStrip(s) ==
    IF s # <<>> /\ s[Len(s)] \in Whitespace
    THEN RStrip(SubSeq(s, 1, Len(s) - 1))
    ELSE s

\* str.strip()
Strip(s) == RStrip(LStrip(s))

LowerChar(c) ==
    CASE c = "T" -> "t" [] c = "R" -> "r" [] c = "U" -> "u" [] c = "E" -> "e"
      [] c = "Y" -> "y" [] c = "S" -> "s" [] c = "N" -> "n" [] c = "O" -> "o"
      [] OTHER -> c

\* str.lower(), on the letters the inputs of this model use
Lower(s) == [i \in 1..Len(s) |-> LowerChar(s[i])]

RECURSIVE ParseNat(_)
ParseNat(s) ==
    IF s = <<>> THEN 0
    ELSE 10 * ParseNat(SubSeq(s, 1, Len(s) - 1)) + DigitVal(s[Len(s)])

Unsigned(s) == IF s # <<>> /\ Head(s) \in {"+", "-"} THEN Tail(s) ELSE s
Sign(s) == IF s # <<>> /\ Head(s) = "-" THEN -1 ELSE 1

\* int(s) succeeds: an optional sign and one or more digits.
IsIntLiteral(s) ==
    LET body == Unsigned(Strip(s))
    IN  body # <<>> /\ \A i \in 1..Len(body) : body[i] \in Digits

\* float(s) succeeds: an optional sign, digits with at most one point, one
\* digit at least.
IsFloatLiteral(s) ==
    LET body == Unsigned(Strip(s))
        dots == {i \in 1..Len(body) : body[i] = "."}
    IN  /\ Cardinality(dots) <= 1
        /\ \A i \in 1..Len(body) : body[i] \in Digits \cup {"."}
        /\ \E i \in 1..Len(body) : body[i] \in Digits

PyInt(s) == IntVal(Sign(Strip(s)) * ParseNat(Unsigned(Strip(s))))

PyFloat(s) ==
    LET body == Unsigned(Strip(s))
        dots == {i \in 1..Len(body) : body[i] = "."}
        dot == IF dots = {} THEN Len(body) + 1 ELSE CHOOSE i \in dots : TRUE
        whole == SubSeq(body, 1, dot - 1)
        frac == SubSeq(body, dot + 1, Len(body))
    IN  FloatVal(Sign(Strip(s)) * ParseNat(whole \o frac), Len(frac))

\* dict.get(key, default)
DictGet(d, key, default) == IF key \in DOMAIN d THEN d[key] ELSE default

\* d[key] = value
DictSet(d, key, value) ==
    [k \in DOMAIN d \cup {key} |-> IF k = key THEN value ELSE d[k]]

EmptyDict == [k \in {} |-> 0]

(***************************************************************************)
(* handle_elicitation                                                      *)
(***************************************************************************)
Clients == {"client", "openai_client"}

TruthyTokens == {<<"t", "r", "u", "e">>, <<"y", "e", "s">>, <<"1">>}

\* Case-sensitive match of the truthy tokens.
Convert_NoLower(field_type, user_input) ==
    CASE field_type = "integer" ->
           IF IsIntLiteral(user_input)
           THEN [ok |-> TRUE, value |-> PyInt(user_input)]
           ELSE [ok |-> FALSE, value |-> StrVal(user_input)]
      [] field_type = "number" ->
           IF IsFloatLiteral(user_input)
           THEN [ok |-> TRUE, value |-> PyFloat(user_input)]
           ELSE [ok |-> FALSE, value |-> StrVal(user_input)]
      [] field_type = "boolean" ->
           [ok |-> TRUE, value |-> BoolVal(user_input \in TruthyTokens)]
      [] OTHER -> [ok |-> TRUE, value |-> StrVal(user_input)]

\* The conversion chain of the handler: ok is FALSE where int() or float()
\* raises ValueError.
Convert(field_type, user_input) ==
    CASE field_type = "integer" ->
           IF IsIntLiteral(user_input)
           THEN [ok |-> TRUE, value |-> PyInt(user_input)]
           ELSE [ok |-> FALSE, value |-> StrVal(user_input)]
      [] field_type = "number" ->
           IF IsFloatLiteral(user_input)
           THEN [ok |-> TRUE, value |-> PyFloat(user_input)]
           ELSE [ok |-> FALSE, value |-> StrVal(user_input)]
      [] field_type = "boolean" ->
           [ok |-> TRUE, value |-> BoolVal(Lower(user_input) \in TruthyTokens)]
      [] OTHER -> [ok |-> TRUE, value |-> StrVal(user_input)]

\* An empty input leaves the field out of user_data.
FieldStep_SkipEmpty(c, field, raw, user_data) ==
    LET user_input == Strip(raw)
        conv == Convert(DictGet(field.info, "type", "string"), user_input)
    IN  IF user_input = <<>>
        THEN [status |-> "next", user_data |-> user_data]
        ELSE [status |-> "next",
              user_data |-> DictSet(user_data, field.name, conv.value)]

\* One iteration of the loop over properties.items(), in client c: read a
\* line, strip it, convert it, store it.  client.py catches ValueError and
\* stores the input as a string; openai_client.py lets ValueError leave the
\* handler.
FieldStep(c, field, raw, user_data) ==
    LET field_type == DictGet(field.info, "type", "string")
        user_input == Strip(raw)
        conv == Convert(field_type, user_input)
    IN  IF conv.ok
        THEN [status |-> "next",
              user_data |-> DictSet(user_data, field.name, conv.value)]
        ELSE IF c = "client"
        THEN [status |-> "next",
              user_data |-> DictSet(user_data, field.name, StrVal(user_input))]
        ELSE [status |-> "raised", user_data |-> user_data]

RECURSIVE CollectFields(_, _, _, _, _)
\* The loop over properties.items() from field i on, and the return.
\* prompted counts the input() calls made.
CollectFields(c, properties, inputs, i, user_data) ==
    IF i > Len(properties)
    THEN [status |-> "returned", action |-> "accept", content |-> user_data,
          prompted |-> i - 1]
    ELSE LET step == FieldStep(c, properties[i], inputs[i], user_data)
         IN  IF step.status = "next"
             THEN CollectFields(c, properties, inputs, i + 1, step.user_data)
             ELSE [status |-> "raised", action |-> "ValueError",
                   content |-> EmptyDict, prompted |-> i]

\* An empty input ends the elicitation at once with action "decline".
handle_elicitation_DeclineOnEmpty(c, properties, inputs) ==
    LET empty == {i \in 1..Len(properties) : Strip(inputs[i]) = <<>>}
        first == CHOOSE i \in empty : \A j \in empty : i <= j
    IN  IF empty # {}
        THEN [status |-> "returned", action |-> "decline",
              content |-> EmptyDict, prompted |-> first]
        ELSE CollectFields(c, properties, inputs, 1, EmptyDict)

\* handle_elicitation(context, params) of client c, the operator typing
\* inputs[i] at the i-th prompt.
handle_elicitation(c, properties, inputs) ==
    CollectFields(c, properties, inputs, 1, EmptyDict)

(***************************************************************************)
(* State.                                                                  *)
(***************************************************************************)
VARIABLES
    client,        \* the program that runs: client.py or openai_client.py
    pc,            \* where process_query stands
    messages,      \* the conversation of the running query
    response,      \* the last answer of the model API
    idx,           \* position of the for loop in response.content
    tool_results,  \* the tool_result blocks collected in this round
    pending,       \* the session requests sent and not yet answered
    el_phase,      \* the elicitation nested in the pending request
    final_text,    \* the value process_query returned
    error,         \* the call whose exception left process_query
    failed_calls,  \* history: the tool_use ids whose invocation raised
    el_params,     \* the properties of the schema handle_elicitation was given
    el_inputs,     \* the lines the operator types, one per prompt
    el_out,        \* what handle_elicitation did
    provider,      \* what the provider lists: tools, prompts, resourceTemplates
    prompt_pc,     \* where the getting of a prompt stands
    prompt_name,   \* the name prompt() was called with
    tool_args,     \* the input of the get_prompt tool_use block
    arguments,     \* the arguments collected for get_prompt
    arg_idx,       \* position of the for loop in prompt_obj.arguments
    prompt_sent,   \* history: the get_prompt requests sent to the provider
    prompt_out,    \* how the getting of the prompt ended
    model_called,  \* history: process_query ran on the rendered prompt
    cat_pc,        \* where the run that builds and uses the catalog stands
    available_tools, \* the catalog of the running query
    listed,        \* history: tools_response.tools of the running query
    model_calls,   \* history: the run and the tools= of every model call
    runs,          \* the process_query runs started
    dispatched,    \* history: tool_use names and the operation each went to
    server_script_path, \* sys.argv[1]
    main_pc,       \* where main() stands
    session_state, \* history: Disconnected, Connecting, Ready or Closed
    exc,           \* the exception that is leaving main's try block
    reported,      \* history: the failures printed for the operator
    cleaned,       \* history: cleanup() ran
    request_states, \* history: the session states requests were issued in
    outcomes,      \* history: how each query of the chat loop ended
    edges,         \* history: the changes of session_state
    spawned,       \* history: the command connect_to_server launched
    w_pc,          \* where write_file stands
    w_content,     \* the content write_file was given
    w_pos,         \* the loop variable i of write_file
    written,       \* the local variable written of write_file
    chunks,        \* history: the chunks f.write was given, in order
    reports,       \* history: the calls of ctx.report_progress, in order
    fs,            \* the file system: what is at each location
    srv_pc,        \* where the provider's request handler stands
    srv_req,       \* the request the provider is serving
    srv_out,       \* how the provider answered its last request
    el_result,     \* what ctx.elicit returned
    touched,       \* history: the file operations and their locations
    events,        \* history: the messages of the running request, in order
    served         \* the requests the provider has answered

loopVars == <<pc, messages, response, idx, tool_results, pending, el_phase,
              final_text, error, failed_calls>>
elicitVars == <<el_params, el_inputs, el_out>>
promptVars == <<prompt_pc, prompt_name, tool_args, arguments, arg_idx,
                prompt_sent, prompt_out, model_called>>
catalogVars == <<cat_pc, available_tools, listed, model_calls, runs,
                 dispatched>>
mainVars == <<server_script_path, main_pc, session_state, exc, reported,
              cleaned, request_states, outcomes, edges, spawned>>
writeVars == <<w_pc, w_content, w_pos, written, chunks, reports>>
serverVars == <<fs, srv_pc, srv_req, srv_out, el_result, touched, events,
                served>>
\* The state of the provider, which the clients' code leaves alone.
providerVars == <<writeVars, serverVars>>
\* The state of the other parts, which the loop and the handler leave alone.
restVars == <<provider, promptVars, catalogVars, mainVars, providerVars>>
vars == <<client, loopVars, elicitVars, restVars>>

\* The provider of the loop and handler models: its lists are not read.
NoProvider == [tools |-> <<>>, prompts |-> <<>>, resourceTemplates |-> <<>>]

\* No prompt is being got.
PromptIdle ==
    /\ prompt_pc = "idle"
    /\ prompt_name = ""
    /\ tool_args = EmptyDict
    /\ arguments = EmptyDict
    /\ arg_idx = 0
    /\ prompt_sent = {}
    /\ prompt_out = "none"
    /\ model_called = FALSE

\* No catalog is built.
CatalogIdle ==
    /\ cat_pc = "idle"
    /\ available_tools = <<>>
    /\ listed = <<>>
    /\ model_calls = <<>>
    /\ runs = 0
    /\ dispatched = {}

\* main() is not modelled: the session is taken as connected.
MainIdle ==
    /\ server_script_path = <<>>
    /\ main_pc = "idle"
    /\ session_state = "Ready"
    /\ exc = "none"
    /\ reported = {}
    /\ cleaned = FALSE
    /\ request_states = {}
    /\ outcomes = <<>>
    /\ edges = {}
    /\ spawned = "none"

\* write_file is not running.
WriteIdle ==
    /\ w_pc = "idle"
    /\ w_content = <<>>
    /\ w_pos = 0
    /\ written = 0
    /\ chunks = <<>>
    /\ reports = <<>>

\* The provider is not modelled: no file system, no request.
ServerIdle ==
    /\ fs = <<>>
    /\ srv_pc = "idle"
    /\ srv_req = <<>>
    /\ srv_out = <<>>
    /\ el_result = <<>>
    /\ touched = {}
    /\ events = <<>>
    /\ served = 0

(***************************************************************************)
(* The elicitation handler alone, on every schema and every input line of  *)
(* the bounded sets below.                                                 *)
(***************************************************************************)
\* The lines the operator may type at a prompt.
RawInputs ==
    { <<>>,
      <<" ">>,
      <<"4", "2">>,
      <<" ", "-", "7", " ">>,
      <<"4", ".", "5">>,
      <<"a", "b", "c">>,
      <<"Y", "e", "s">>,
      <<"1">>,
      <<"r", "e", "p", "o", "r", "t", ".", "m", "d">> }

FieldNames == <<"name", "count", "flag", "extra">>

\* field_info of a property: with a "type" entry, or without one.
FieldInfos ==
    {[type |-> t] : t \in {"string", "integer", "number", "boolean", "array"}}
        \cup {EmptyDict}

\* requestedSchema['properties'] as the ordered items of the dict.
Schemas ==
    UNION {{[i \in 1..k |-> [name |-> FieldNames[i], info |-> f[i]]] :
                f \in [1..k -> FieldInfos]} : k \in 0..MaxFields}

NoOutcome ==
    [status |-> "none", action |-> "none", content |-> EmptyDict, prompted |-> 0]

ElicitInit ==
    /\ client \in Clients
    /\ pc = "idle"
    /\ messages = <<>>
    /\ response = [stop_reason |-> "none", content |-> <<>>]
    /\ idx = 0
    /\ tool_results = <<>>
    /\ pending = {}
    /\ el_phase = "none"
    /\ final_text = <<>>
    /\ error = "none"
    /\ failed_calls = {}
    /\ el_params \in Schemas
    /\ el_inputs \in [1..Len(el_params) -> RawInputs]
    /\ el_out = NoOutcome
    /\ provider = NoProvider
    /\ PromptIdle
    /\ CatalogIdle
    /\ MainIdle
    /\ WriteIdle
    /\ ServerIdle

\* The session invokes the registered callback; the operator answers every
\* prompt; the handler returns or raises.
HandleElicitation ==
    /\ el_out.status = "none"
    /\ el_out' = handle_elicitation(client, el_params, el_inputs)
    /\ UNCHANGED <<client, loopVars, el_params, el_inputs, restVars>>

ElicitNext == HandleElicitation

ElicitSpec == ElicitInit /\ [][ElicitNext]_vars

(***************************************************************************)
(* process_query: the agentic loop of both clients.                        *)
(***************************************************************************)
DigitChar(k) == CHOOSE c \in Digits : DigitVal(c) = k

\* The query, as the one text block a plain string content stands for.
QueryBlock ==
    [type |-> "text", id |-> 0, name |-> "", input |-> {}, text |-> <<"q">>]

\* What the model may ask for: a tool name and the keys of its input.
ToolUseShapes ==
    { [type |-> "tool_use", name |-> "write_file",
       input |-> {"file_path", "content"}],
      [type |-> "tool_use", name |-> "read_resource", input |-> {"uri"}],
      [type |-> "tool_use", name |-> "read_resource", input |-> {}],
      [type |-> "tool_use", name |-> "get_prompt", input |-> {"prompt_name"}] }

BlockShapes == {[type |-> "text", name |-> "", input |-> {}]} \cup ToolUseShapes

\* The k-th content block the model API returns in this run: a tool_use
\* block gets the fresh id k, a text block a text of its own.
Block(shape, k) ==
    [type |-> shape.type,
     id |-> IF shape.type = "tool_use" THEN k ELSE 0,
     name |-> shape.name,
     input |-> shape.input,
     text |-> IF shape.type = "text" THEN <<"t", DigitChar(k)>> ELSE <<>>]

StopReasons == {"tool_use", "end_turn", "max_tokens"}

RECURSIVE CountBlocks(_)
\* The content blocks of the assistant turns of a conversation.
CountBlocks(msgs) ==
    IF msgs = <<>> THEN 0
    ELSE (IF Head(msgs).role = "assistant" THEN Len(Head(msgs).content) ELSE 0)
             + CountBlocks(Tail(msgs))

\* The blocks of an answer that ends the loop.  The code reads only
\* whether such a block has a text, so one tool_use shape stands for all.
FinalBlockShapes ==
    {[type |-> "text", name |-> "", input |-> {}],
     [type |-> "tool_use", name |-> "write_file",
      input |-> {"file_path", "content"}]}

\* The answers of the model API after `used` blocks of this run, within the
\* bound: stop reason tool_use comes with one tool_use block at least.
Replies(used) ==
    LET room == MaxBlocks - used
        shapes == UNION {[1..k -> BlockShapes] : k \in 0..room}
        final == UNION {[1..k -> FinalBlockShapes] : k \in 0..room}
        mk(sh, r) == [stop_reason |-> r,
                      content |-> [i \in 1..Len(sh) |-> Block(sh[i], used + i)]]
    IN  {mk(sh, "tool_use") :
            sh \in {x \in shapes : \E i \in 1..Len(x) : x[i].type = "tool_use"}}
        \cup {mk(x[1], x[2]) : x \in final \X (StopReasons \ {"tool_use"})}

\* A name the provider lists as a tool goes to call_tool, whatever it is.
Route_ProviderToolsFirst(c, block) ==
    IF c = "openai_client" /\ block.name = "read_resource"
           /\ \A i \in 1..Len(listed) : listed[i].name # block.name
    THEN IF "uri" \in block.input THEN "read_resource" ELSE "KeyError"
    ELSE IF c = "openai_client" /\ block.name = "get_prompt"
           /\ \A i \in 1..Len(listed) : listed[i].name # block.name
    THEN IF "prompt_name" \in block.input THEN "get_prompt" ELSE "KeyError"
    ELSE "call_tool"

\* The session operation a tool_use block is routed to.  client.py calls
\* the tool whatever its name; openai_client.py serves read_resource and
\* get_prompt itself and reads tool_args["uri"] / tool_args["prompt_name"].
Route(c, block) ==
    IF c = "openai_client" /\ block.name = "read_resource"
    THEN IF "uri" \in block.input THEN "read_resource" ELSE "KeyError"
    ELSE IF c = "openai_client" /\ block.name = "get_prompt"
    THEN IF "prompt_name" \in block.input THEN "get_prompt" ELSE "KeyError"
    ELSE "call_tool"

\* The result text of a completed request, as the client formats it.
ResultContent(op) == <<op, "result">>
\* f"Error: {str(e)}"
ErrorContent(e) == <<"Error: ", e>>

\* The result is put in front of the results collected so far.
OnResult_Prepend(results, id, op) ==
    <<[type |-> "tool_result", tool_use_id |-> id,
       content |-> ResultContent(op), is_error |-> FALSE]>> \o results

\* tool_results.append({...}) after a request that returned.
OnResult(results, id, op) ==
    Append(results, [type |-> "tool_result", tool_use_id |-> id,
                     content |-> ResultContent(op), is_error |-> FALSE])

\* The exception is printed and no result is appended.
OnException_Drop(results, id, e) == results

\* The error result is appended without the error flag.
OnException_NoFlag(results, id, e) ==
    Append(results, [type |-> "tool_result", tool_use_id |-> id,
                     content |-> ErrorContent(e), is_error |-> FALSE])

\* except Exception as e: tool_results.append({..., "is_error": True})
OnException(results, id, e) ==
    Append(results, [type |-> "tool_result", tool_use_id |-> id,
                     content |-> ErrorContent(e), is_error |-> TRUE])

\* The request is sent and the loop goes on to the next block.
AfterSend_NoAwait(i) == [pc |-> "for_each", idx |-> i + 1]

\* await self.session.<request>(...): the caller is suspended at block i.
AfterSend(i) == [pc |-> "await", idx |-> i]

\* Only the tool_use blocks of the answer are kept in the conversation.
AssistantTurn_ToolUseOnly(resp) ==
    [role |-> "assistant",
     content |-> SelectSeq(resp.content, LAMBDA b : b.type = "tool_use")]

\* messages.append({"role": "assistant", "content": response.content})
AssistantTurn(resp) == [role |-> "assistant", content |-> resp.content]

\* The assistant turns appended so far: the rounds of the loop.
Rounds == Cardinality({n \in 1..Len(messages) : messages[n].role = "assistant"})

\* The loop also ends after two rounds.
LoopContinues_Limited(resp) == resp.stop_reason = "tool_use" /\ Rounds < 2

\* while response.stop_reason == "tool_use"
LoopContinues(resp) == resp.stop_reason = "tool_use"

RECURSIVE JoinNoSeparator(_)
\* "".join(texts)
JoinNoSeparator(texts) ==
    IF texts = <<>> THEN <<>> ELSE Head(texts) \o JoinNoSeparator(Tail(texts))

RECURSIVE JoinNewline(_)
\* "\n".join(texts)
JoinNewline(texts) ==
    IF texts = <<>> THEN <<>>
    ELSE IF Len(texts) = 1 THEN Head(texts)
    ELSE Head(texts) \o <<"\n">> \o JoinNewline(Tail(texts))

\* hasattr(content, 'text'): the text blocks have a text.
HasText(block) == block.type = "text"

\* final_text: the texts of the blocks that have one, in order.
FinalTexts(content) ==
    LET texts == SelectSeq(content, HasText)
    IN  [i \in 1..Len(texts) |-> texts[i].text]

\* The properties of DocumentGeneratorSchema, which documentation_generator
\* elicits.
DocumentGeneratorProperties ==
    << [name |-> "file_path", info |-> [type |-> "string"]],
       [name |-> "name", info |-> [type |-> "string"]] >>

Init ==
    /\ client \in Clients
    /\ pc = "list_tools"
    /\ messages = <<[role |-> "user", content |-> <<QueryBlock>>]>>
    /\ response = [stop_reason |-> "none", content |-> <<>>]
    /\ idx = 0
    /\ tool_results = <<>>
    /\ pending = {}
    /\ el_phase = "none"
    /\ final_text = <<>>
    /\ error = "none"
    /\ failed_calls = {}
    /\ el_params = <<>>
    /\ el_inputs = <<>>
    /\ el_out = NoOutcome
    /\ provider = NoProvider
    /\ PromptIdle
    /\ CatalogIdle
    /\ MainIdle
    /\ WriteIdle
    /\ ServerIdle

\* available_tools is fetched from the session.
ListTools ==
    /\ pc = "list_tools"
    /\ pc' = "call_model"
    /\ UNCHANGED <<client, messages, response, idx, tool_results, pending,
                   el_phase, final_text, error, failed_calls, elicitVars, restVars>>

\* session.list_tools() raises: the exception leaves process_query.
ListToolsRaises ==
    /\ pc = "list_tools"
    /\ pc' = "raised"
    /\ error' = "list_tools"
    /\ UNCHANGED <<client, messages, response, idx, tool_results, pending,
                   el_phase, final_text, failed_calls, elicitVars, restVars>>

\* anthropic.messages.create(messages=messages, tools=available_tools)
\* answers and the loop condition holds: the assistant turn is appended and
\* the round begins with tool_results = [].
ModelRequestsTools ==
    /\ pc = "call_model"
    /\ \E r \in Replies(CountBlocks(messages)) :
           /\ LoopContinues(r)
           /\ response' = r
           /\ messages' = Append(messages, AssistantTurn(r))
    /\ tool_results' = <<>>
    /\ idx' = 1
    /\ pc' = "for_each"
    /\ UNCHANGED <<client, pending, el_phase, final_text, error, failed_calls,
                   elicitVars, restVars>>

\* anthropic.messages.create(...) answers and the loop condition fails: the
\* final text is extracted and returned.
ModelAnswers ==
    /\ pc = "call_model"
    /\ \E r \in Replies(CountBlocks(messages)) :
           /\ ~LoopContinues(r)
           /\ response' = r
           /\ final_text' = JoinNewline(FinalTexts(r.content))
    /\ pc' = "done"
    /\ UNCHANGED <<client, messages, idx, tool_results, pending, el_phase,
                   error, failed_calls, elicitVars, restVars>>

\* The model API raises: the exception leaves process_query.
CallModelRaises ==
    /\ pc = "call_model"
    /\ pc' = "raised"
    /\ error' = "messages.create"
    /\ UNCHANGED <<client, messages, response, idx, tool_results, pending,
                   el_phase, final_text, failed_calls, elicitVars, restVars>>

\* for content in response.content: a block that is no tool_use is passed.
SkipBlock ==
    /\ pc = "for_each"
    /\ idx <= Len(response.content)
    /\ response.content[idx].type # "tool_use"
    /\ idx' = idx + 1
    /\ UNCHANGED <<client, pc, messages, response, tool_results, pending,
                   el_phase, final_text, error, failed_calls, elicitVars, restVars>>

\* A tool_use block whose input lacks the key the client reads: KeyError
\* inside the try, before any request.
DispatchRaises ==
    /\ pc = "for_each"
    /\ idx <= Len(response.content)
    /\ response.content[idx].type = "tool_use"
    /\ Route(client, response.content[idx]) = "KeyError"
    /\ tool_results' = OnException(tool_results, response.content[idx].id,
                                   "KeyError")
    /\ failed_calls' = failed_calls \cup {response.content[idx].id}
    /\ idx' = idx + 1
    /\ UNCHANGED <<client, pc, messages, response, pending, el_phase,
                   final_text, error, elicitVars, restVars>>

\* A tool_use block: the session request is sent.
SendRequest ==
    /\ pc = "for_each"
    /\ idx <= Len(response.content)
    /\ response.content[idx].type = "tool_use"
    /\ Route(client, response.content[idx]) # "KeyError"
    /\ pending' = pending \cup
           {[op |-> Route(client, response.content[idx]),
             tool_use_id |-> response.content[idx].id]}
    /\ pc' = AfterSend(idx).pc
    /\ idx' = AfterSend(idx).idx
    /\ UNCHANGED <<client, messages, response, tool_results, el_phase,
                   final_text, error, failed_calls, elicitVars, restVars>>

\* The request the caller is suspended on.
AwaitedRequest ==
    [op |-> Route(client, response.content[idx]),
     tool_use_id |-> response.content[idx].id]

\* The provider, serving get_prompt for documentation_generator, sends its
\* one elicitation request.
ElicitRequest ==
    /\ pc = "await"
    /\ AwaitedRequest \in pending
    /\ AwaitedRequest.op = "get_prompt"
    /\ el_phase = "none"
    /\ el_phase' = "asked"
    /\ UNCHANGED <<client, pc, messages, response, idx, tool_results, pending,
                   final_text, error, failed_calls, elicitVars, restVars>>

\* The session runs the elicitation callback and sends what it gives (its
\* result, or an error when it raised) back to the provider.
ElicitAnswer ==
    /\ el_phase = "asked"
    /\ \E inputs \in [1..Len(DocumentGeneratorProperties) -> RawInputs] :
           el_phase' =
               IF handle_elicitation(client, DocumentGeneratorProperties,
                                     inputs).status = "returned"
               THEN "answered" ELSE "failed"
    /\ UNCHANGED <<client, pc, messages, response, idx, tool_results, pending,
                   final_text, error, failed_calls, elicitVars, restVars>>

\* The response of the awaited request arrives: its text becomes a result.
ReceiveResult ==
    /\ pc = "await"
    /\ AwaitedRequest \in pending
    /\ el_phase \in {"none", "answered"}
    /\ pending' = pending \ {AwaitedRequest}
    /\ tool_results' = OnResult(tool_results, response.content[idx].id,
                                AwaitedRequest.op)
    /\ el_phase' = "none"
    /\ idx' = idx + 1
    /\ pc' = "for_each"
    /\ UNCHANGED <<client, messages, response, final_text, error,
                   failed_calls, elicitVars, restVars>>

\* The awaited request fails: the session call raises inside the try.
ReceiveError ==
    /\ pc = "await"
    /\ AwaitedRequest \in pending
    /\ el_phase # "asked"
    /\ pending' = pending \ {AwaitedRequest}
    /\ tool_results' = OnException(tool_results, response.content[idx].id,
                                   "McpError")
    /\ failed_calls' = failed_calls \cup {response.content[idx].id}
    /\ el_phase' = "none"
    /\ idx' = idx + 1
    /\ pc' = "for_each"
    /\ UNCHANGED <<client, messages, response, final_text, error, elicitVars, restVars>>

\* The for loop is over: the user turn with the results is appended.
FinishRound ==
    /\ pc = "for_each"
    /\ idx > Len(response.content)
    /\ messages' = Append(messages,
                          [role |-> "user", content |-> tool_results])
    /\ pc' = "call_model"
    /\ UNCHANGED <<client, response, idx, tool_results, pending, el_phase,
                   final_text, error, failed_calls, elicitVars, restVars>>

Next ==
    \/ ListTools
    \/ ListToolsRaises
    \/ ModelRequestsTools
    \/ ModelAnswers
    \/ CallModelRaises
    \/ SkipBlock
    \/ DispatchRaises
    \/ SendRequest
    \/ ElicitRequest
    \/ ElicitAnswer
    \/ ReceiveResult
    \/ ReceiveError
    \/ FinishRound

Spec == Init /\ [][Next]_vars

(***************************************************************************)
(* Getting a prompt: prompt() of client.py (the menu actions 1 and 2) and  *)
(* the get_prompt branch of the dispatch of openai_client.py.              *)
(***************************************************************************)
\* process_query and handle_elicitation are not running.
LoopIdle ==
    /\ pc = "idle"
    /\ messages = <<>>
    /\ response = [stop_reason |-> "none", content |-> <<>>]
    /\ idx = 0
    /\ tool_results = <<>>
    /\ pending = {}
    /\ el_phase = "none"
    /\ final_text = <<>>
    /\ error = "none"
    /\ failed_calls = {}
    /\ el_params = <<>>
    /\ el_inputs = <<>>
    /\ el_out = NoOutcome

\* The lists of prompt descriptors a provider may give: none; those of
\* server.py; those of a server whose code_review also takes an optional
\* argument and which has no documentation_generator.
PromptLists ==
    { <<>>,
      << [name |-> "code_review",
          arguments |-> <<[name |-> "file_path", required |-> TRUE]>>],
         [name |-> "documentation_generator", arguments |-> <<>>] >>,
      << [name |-> "code_review",
          arguments |-> << [name |-> "focus", required |-> FALSE],
                           [name |-> "file_path", required |-> TRUE] >>] >> }

\* The names the menu of client.py calls prompt() with.
MenuPrompts == {"documentation_generator", "code_review"}

\* The lines the operator may type when asked for an argument.
ArgInputs == {<<>>, <<" ">>, <<" ", "a", ".", "p", "y">>, <<"b", ".", "m", "d", " ">>}

\* The inputs of a get_prompt tool_use block the model may produce.
MetaInputs ==
    {EmptyDict}
        \cup {[prompt_name |-> n] :
                n \in {"code_review", "documentation_generator", "summarize"}}
        \cup {[prompt_name |-> n, arguments |-> a] :
                n \in {"code_review", "documentation_generator"},
                a \in {EmptyDict, [file_path |-> <<"a", ".", "p", "y">>]}}

\* The positions of the descriptors named name.
Named(descriptors, name) ==
    {i \in 1..Len(descriptors) : descriptors[i].name = name}

\* The descriptor is used without being looked up in the list.
LookupPrompt_Unchecked(descriptors, name) ==
    [found |-> TRUE, arguments |-> <<>>]

\* next((p for p in prompts_response.prompts if p.name == prompt_name), None)
\* and the test `if not prompt_obj`.
LookupPrompt(descriptors, name) ==
    IF Named(descriptors, name) = {}
    THEN [found |-> FALSE, arguments |-> <<>>]
    ELSE LET first == CHOOSE i \in Named(descriptors, name) :
                          \A j \in Named(descriptors, name) : i <= j
         IN  [found |-> TRUE, arguments |-> descriptors[first].arguments]

\* prompt_obj.arguments of the running prompt().
PromptArguments == LookupPrompt(provider.prompts, prompt_name).arguments

\* One iteration of the loop over prompt_obj.arguments: read a line, strip
\* it, refuse an empty line for a required argument, store a non-empty one.
ArgStep(arg, raw, collected) ==
    LET user_input == Strip(raw)
    IN  IF user_input = <<>> /\ arg.required
        THEN [status |-> "required", arguments |-> collected]
        ELSE IF user_input # <<>>
        THEN [status |-> "next",
              arguments |-> DictSet(collected, arg.name, user_input)]
        ELSE [status |-> "next", arguments |-> collected]

PromptInit ==
    /\ LoopIdle
    /\ CatalogIdle
    /\ MainIdle
    /\ WriteIdle
    /\ ServerIdle
    /\ \E p \in PromptLists :
           provider = [tools |-> <<>>, prompts |-> p, resourceTemplates |-> <<>>]
    /\ client \in Clients
    /\ IF client = "client"
       THEN /\ prompt_pc = "list_prompts"
            /\ prompt_name \in MenuPrompts
            /\ tool_args = EmptyDict
       ELSE /\ prompt_pc = "dispatch"
            /\ prompt_name = ""
            /\ tool_args \in MetaInputs
    /\ arguments = EmptyDict
    /\ arg_idx = 0
    /\ prompt_sent = {}
    /\ prompt_out = "none"
    /\ model_called = FALSE

\* prompt(): the prompts are listed and the name is looked up.  An unknown
\* name is printed as not found and prompt() returns.
ListPrompts ==
    /\ prompt_pc = "list_prompts"
    /\ IF LookupPrompt(provider.prompts, prompt_name).found
       THEN /\ prompt_pc' = "collect"
            /\ arg_idx' = 1
            /\ prompt_out' = prompt_out
       ELSE /\ prompt_pc' = "returned"
            /\ arg_idx' = arg_idx
            /\ prompt_out' = "not_found"
    /\ arguments' = EmptyDict
    /\ UNCHANGED <<providerVars, client, loopVars, elicitVars, provider, prompt_name,
                   tool_args, prompt_sent, model_called, catalogVars, mainVars>>

\* prompt(): session.list_prompts() raises; the except clause prints it.
ListPromptsRaises ==
    /\ prompt_pc = "list_prompts"
    /\ prompt_pc' = "returned"
    /\ prompt_out' = "server_error"
    /\ UNCHANGED <<providerVars, client, loopVars, elicitVars, provider, prompt_name,
                   tool_args, arguments, arg_idx, prompt_sent, model_called,
                   catalogVars, mainVars>>

\* prompt(): the operator is asked for the next argument.
CollectArgument ==
    /\ prompt_pc = "collect"
    /\ arg_idx <= Len(PromptArguments)
    /\ \E raw \in ArgInputs :
           LET step == ArgStep(PromptArguments[arg_idx], raw, arguments)
           IN  /\ arguments' = step.arguments
               /\ IF step.status = "required"
                  THEN /\ prompt_pc' = "returned"
                       /\ prompt_out' = "required"
                       /\ arg_idx' = arg_idx
                  ELSE /\ prompt_pc' = prompt_pc
                       /\ prompt_out' = prompt_out
                       /\ arg_idx' = arg_idx + 1
    /\ UNCHANGED <<providerVars, client, loopVars, elicitVars, provider, prompt_name,
                   tool_args, prompt_sent, model_called, catalogVars, mainVars>>

\* prompt(): every argument was asked for; the get_prompt request is sent.
SendGetPrompt ==
    /\ prompt_pc = "collect"
    /\ arg_idx > Len(PromptArguments)
    /\ prompt_sent' = prompt_sent \cup
           {[name |-> prompt_name, arguments |-> arguments]}
    /\ prompt_pc' = "await"
    /\ UNCHANGED <<providerVars, client, loopVars, elicitVars, provider, prompt_name,
                   tool_args, arguments, arg_idx, prompt_out, model_called,
                   catalogVars, mainVars>>

\* The dispatch of openai_client.py reads tool_args["prompt_name"]: KeyError
\* inside the try, an error result.
MetaDispatchRaises ==
    /\ prompt_pc = "dispatch"
    /\ "prompt_name" \notin DOMAIN tool_args
    /\ prompt_pc' = "returned"
    /\ prompt_out' = "is_error"
    /\ UNCHANGED <<providerVars, client, loopVars, elicitVars, provider, prompt_name,
                   tool_args, arguments, arg_idx, prompt_sent, model_called,
                   catalogVars, mainVars>>

\* The dispatch of openai_client.py: the name and the arguments of the block
\* (none when the block has no "arguments") go to session.get_prompt.
MetaGetPrompt ==
    /\ prompt_pc = "dispatch"
    /\ "prompt_name" \in DOMAIN tool_args
    /\ prompt_name' = tool_args["prompt_name"]
    /\ arguments' = DictGet(tool_args, "arguments", EmptyDict)
    /\ prompt_sent' = prompt_sent \cup
           {[name |-> prompt_name', arguments |-> arguments']}
    /\ prompt_pc' = "await"
    /\ UNCHANGED <<providerVars, client, loopVars, elicitVars, provider, tool_args, arg_idx,
                   prompt_out, model_called, catalogVars, mainVars>>

\* The provider renders the prompt.  prompt() reads messages[0] (IndexError
\* when there is no message) and goes on to process_query; the dispatch
\* makes a tool result of the messages.
GetPromptReturns ==
    /\ prompt_pc = "await"
    /\ \E n_messages \in 0..1 :
           IF client = "openai_client"
           THEN prompt_pc' = "returned" /\ prompt_out' = "result"
           ELSE IF n_messages = 0
           THEN prompt_pc' = "returned" /\ prompt_out' = "error"
           ELSE prompt_pc' = "query" /\ prompt_out' = prompt_out
    /\ UNCHANGED <<providerVars, client, loopVars, elicitVars, provider, prompt_name,
                   tool_args, arguments, arg_idx, prompt_sent, model_called,
                   catalogVars, mainVars>>

\* session.get_prompt raises: prompt() prints the error, the dispatch makes
\* an error result of it.
GetPromptRaises ==
    /\ prompt_pc = "await"
    /\ prompt_pc' = "returned"
    /\ prompt_out' = IF client = "client" THEN "server_error" ELSE "is_error"
    /\ UNCHANGED <<providerVars, client, loopVars, elicitVars, provider, prompt_name,
                   tool_args, arguments, arg_idx, prompt_sent, model_called,
                   catalogVars, mainVars>>

\* prompt(): process_query runs on the rendered prompt; its answer is
\* printed, or the exception that left it.
ProcessPrompt ==
    /\ prompt_pc = "query"
    /\ model_called' = TRUE
    /\ prompt_pc' = "returned"
    /\ prompt_out' \in {"printed", "error"}
    /\ UNCHANGED <<providerVars, client, loopVars, elicitVars, provider, prompt_name,
                   tool_args, arguments, arg_idx, prompt_sent, catalogVars,
                   mainVars>>

PromptNext ==
    \/ ListPrompts
    \/ ListPromptsRaises
    \/ CollectArgument
    \/ SendGetPrompt
    \/ MetaDispatchRaises
    \/ MetaGetPrompt
    \/ GetPromptReturns
    \/ GetPromptRaises
    \/ ProcessPrompt

PromptSpec == PromptInit /\ [][PromptNext]_vars

(***************************************************************************)
(* The tool catalog: what process_query of either client lists from the    *)
(* provider, gives to the model calls of the run, and dispatches on.       *)
(***************************************************************************)
\* Model calls, and process_query runs, of one chat loop.
MaxCalls == 3

\* Python's None.
NoneVal == [kind |-> "None", s |-> <<>>, n |-> 0, scale |-> 0, b |-> FALSE]

\* bool(v)
Truthy(v) ==
    CASE v.kind = "None" -> FALSE
      [] v.kind = "str" -> v.s # <<>>
      [] v.kind = "bool" -> v.b
      [] OTHER -> v.n # 0

\* a or b
PyOr(a, b) == IF Truthy(a) THEN a ELSE b

\* The tool descriptors a provider may list: those of server.py, and tools
\* without a description, with an empty one, and named like the meta-tools.
WriteFileTool ==
    [name |-> "write_file",
     description |-> StrVal(<<"Create a new file with specified content.">>),
     inputSchema |-> [type |-> "object",
                      required |-> {"file_path", "content"}]]
DeleteFileTool ==
    [name |-> "delete_file",
     description |-> NoneVal,
     inputSchema |-> [type |-> "object", required |-> {"file_path"}]]
ReadResourceProviderTool ==
    [name |-> "read_resource",
     description |-> StrVal(<<>>),
     inputSchema |-> [type |-> "object", required |-> {"path"}]]
GetPromptProviderTool ==
    [name |-> "get_prompt",
     description |-> StrVal(<<"Render a template.">>),
     inputSchema |-> [type |-> "object", required |-> {}]]

\* tools_response.tools, as the provider may answer list_tools.
ToolLists ==
    { <<>>,
      <<WriteFileTool, DeleteFileTool>>,
      <<DeleteFileTool, WriteFileTool, ReadResourceProviderTool>>,
      <<GetPromptProviderTool, WriteFileTool>> }

\* resource_templates.resourceTemplates: none, or that of server.py and one
\* with the placeholder the example text replaces.
TemplateLists ==
    { <<>>,
      << [uriTemplate |-> "file:///{file_name}",
          description |-> StrVal(<<"Read the content of a file.">>)],
         [uriTemplate |-> "dir://{directory}", description |-> NoneVal] >> }

\* The prompts and resource templates a provider lists next to its tools:
\* neither, those of server.py with two templates, or prompts alone.
OtherLists ==
    {o \in [prompts : PromptLists, resourceTemplates : TemplateLists] :
        Len(o.prompts) = 2 <=> o.resourceTemplates # <<>>}

\* Every entry gets the fixed description.
ToolEntry_FixedDescription(tool) ==
    [name |-> tool.name,
     description |-> StrVal(<<"MCP Tool">>),
     input_schema |-> tool.inputSchema]

\* The catalog entry of a provider tool.
ToolEntry(tool) ==
    [name |-> tool.name,
     description |-> PyOr(tool.description, StrVal(<<"MCP Tool">>)),
     input_schema |-> tool.inputSchema]

\* The entries of tools_response.tools, in the order of the response.
CatalogTools(tools) == [i \in 1..Len(tools) |-> ToolEntry(tools[i])]

RECURSIVE JoinPieces(_, _)
\* sep.join(texts), every text a sequence of pieces.
JoinPieces(texts, sep) ==
    IF texts = <<>> THEN <<>>
    ELSE IF Len(texts) = 1 THEN Head(texts)
    ELSE Head(texts) \o <<sep>> \o JoinPieces(Tail(texts), sep)

\* f"{a.name} ({'required' if a.required else 'optional'})"
ArgText(a) ==
    <<a.name, " (", IF a.required THEN "required" ELSE "optional", ")">>

\* f"{p.name}{args_desc}"
PromptText(p) ==
    IF p.arguments = <<>> THEN <<p.name>>
    ELSE <<p.name, " (args: ">>
             \o JoinPieces([i \in 1..Len(p.arguments) |-> ArgText(p.arguments[i])],
                           ", ")
             \o <<")">>

\* The synthetic get_prompt function, its description listing the prompts.
GetPromptTool(descriptors) ==
    [name |-> "get_prompt",
     description |->
         StrVal(<<"Get a pre-defined prompt from the MCP server. Available prompts: ">>
                \o JoinPieces([i \in 1..Len(descriptors) |-> PromptText(descriptors[i])],
                              "; ")
                \o <<". The prompt will be inserted into the conversation.">>),
     input_schema |-> [type |-> "object", required |-> {"prompt_name"}]]

\* template.uriTemplate.replace('{file_path}', 'server.py')
\*                     .replace('{directory}', '.')
ExampleUri(uri) ==
    CASE uri = "file:///{file_path}" -> "file:///server.py"
      [] uri = "dir://{directory}" -> "dir://."
      [] OTHER -> uri

\* One element of templates_data.
TemplateText(template) ==
    <<"URI: ", template.uriTemplate, "\n Description: ">>
        \o PyOr(template.description, StrVal(<<"No description">>)).s
        \o <<"\n Example: ", ExampleUri(template.uriTemplate)>>

\* The synthetic read_resource function, its description listing the
\* resource templates.
ReadResourceTool(templates) ==
    [name |-> "read_resource",
     description |->
         StrVal(<<"Read an MCP resource. Available templates: \n">>
                \o JoinPieces([i \in 1..Len(templates) |-> TemplateText(templates[i])],
                              "\n")),
     input_schema |-> [type |-> "object", required |-> {"uri"}]]

\* get_prompt is appended whatever the provider lists.
WithPrompts_Always(catalog, descriptors) ==
    Append(catalog, GetPromptTool(descriptors))

\* if prompts_response.prompts: available_tools.append({get_prompt ...})
WithPrompts(catalog, descriptors) ==
    IF descriptors # <<>> THEN Append(catalog, GetPromptTool(descriptors))
    ELSE catalog

\* Every model call lists the provider's tools again.
ToolsForCall_Refetched ==
    CatalogTools(provider.tools)
        \o SubSeq(available_tools, Len(listed) + 1, Len(available_tools))

\* tools=available_tools of anthropic.messages.create
ToolsForCall == available_tools

\* The model calls made in the running process_query.
CallsOfRun == {i \in 1..Len(model_calls) : model_calls[i].run = runs}

CatalogInit ==
    /\ LoopIdle
    /\ PromptIdle
    /\ MainIdle
    /\ WriteIdle
    /\ ServerIdle
    /\ client \in Clients
    /\ \E t \in ToolLists, o \in OtherLists :
           provider = [tools |-> t, prompts |-> o.prompts,
                       resourceTemplates |-> o.resourceTemplates]
    /\ client = "client" => provider.prompts # <<>>
    /\ cat_pc = "list_tools"
    /\ available_tools = <<>>
    /\ listed = <<>>
    /\ model_calls = <<>>
    /\ runs = 1
    /\ dispatched = {}

\* session.list_tools() answers: the provider tools become the catalog.
\* client.py goes on to the model call, openai_client.py to list_prompts.
FetchTools ==
    /\ cat_pc = "list_tools"
    /\ listed' = provider.tools
    /\ available_tools' = CatalogTools(provider.tools)
    /\ cat_pc' = IF client = "client" THEN "call_model" ELSE "list_prompts"
    /\ UNCHANGED <<providerVars, client, loopVars, elicitVars, provider, promptVars,
                   model_calls, runs, dispatched, mainVars>>

\* openai_client.py: session.list_prompts() answers.
FetchPrompts ==
    /\ cat_pc = "list_prompts"
    /\ available_tools' = WithPrompts(available_tools, provider.prompts)
    /\ cat_pc' = "list_templates"
    /\ UNCHANGED <<providerVars, client, loopVars, elicitVars, provider, promptVars, listed,
                   model_calls, runs, dispatched, mainVars>>

\* openai_client.py: session.list_resource_templates() answers.
FetchTemplates ==
    /\ cat_pc = "list_templates"
    /\ available_tools' =
           Append(available_tools, ReadResourceTool(provider.resourceTemplates))
    /\ cat_pc' = "call_model"
    /\ UNCHANGED <<providerVars, client, loopVars, elicitVars, provider, promptVars, listed,
                   model_calls, runs, dispatched, mainVars>>

\* One of the list requests, or the model API, raises: the exception leaves
\* process_query.
RunRaises ==
    /\ cat_pc \in {"list_tools", "list_prompts", "list_templates", "call_model"}
    /\ cat_pc' = "raised"
    /\ UNCHANGED <<providerVars, client, loopVars, elicitVars, provider, promptVars,
                   available_tools, listed, model_calls, runs, dispatched,
                   mainVars>>

\* anthropic.messages.create(messages=messages, tools=available_tools):
\* the model asks for tools, or answers.
CallModel ==
    /\ cat_pc = "call_model"
    /\ Len(model_calls) < MaxCalls
    /\ model_calls' = Append(model_calls,
           [run |-> runs, tools |-> ToolsForCall, listed |-> listed])
    /\ \/ Len(model_calls) + 1 < MaxCalls /\ cat_pc' = "round"
       \/ cat_pc' = "returned"
    /\ UNCHANGED <<providerVars, client, loopVars, elicitVars, provider, promptVars,
                   available_tools, listed, runs, dispatched, mainVars>>

\* A tool_use block of the round is dispatched; its result is collected.
DispatchBlock ==
    /\ cat_pc = "round"
    /\ \E shape \in ToolUseShapes :
           dispatched' = {[name |-> shape.name, input |-> shape.input,
                           op |-> Route(client, Block(shape, 1))]}
    /\ cat_pc' = "call_model"
    /\ UNCHANGED <<providerVars, client, loopVars, elicitVars, provider, promptVars,
                   available_tools, listed, model_calls, runs, mainVars>>

\* The provider's tools change while the client runs (the provider notifies
\* tools/list_changed; the clients register no handler for it).
ToolsListChanged ==
    /\ cat_pc \in {"list_tools", "list_prompts", "list_templates",
                   "call_model", "round", "returned", "raised"}
    /\ \E t \in ToolLists \ {provider.tools} :
           provider' = [provider EXCEPT !.tools = t]
    /\ UNCHANGED <<providerVars, client, loopVars, elicitVars, promptVars, catalogVars,
                   mainVars>>

\* The chat loop reads the next query and calls process_query again.
NextQuery ==
    /\ cat_pc \in {"returned", "raised"}
    /\ runs < MaxCalls
    /\ runs' = runs + 1
    /\ cat_pc' = "list_tools"
    /\ available_tools' = <<>>
    /\ listed' = <<>>
    /\ dispatched' = {}
    /\ UNCHANGED <<providerVars, client, loopVars, elicitVars, provider, promptVars,
                   model_calls, mainVars>>

CatalogNext ==
    \/ FetchTools
    \/ FetchPrompts
    \/ FetchTemplates
    \/ RunRaises
    \/ CallModel
    \/ DispatchBlock
    \/ ToolsListChanged
    \/ NextQuery

CatalogSpec == CatalogInit /\ [][CatalogNext]_vars

(***************************************************************************)
(* main(): connect_to_server, the chat loop and cleanup, of both clients.  *)
(***************************************************************************)
\* Queries and menu actions of one chat loop.
MaxQueries == 2

\* s.endswith(suffix)
EndsWith(s, suffix) ==
    /\ Len(s) >= Len(suffix)
    /\ SubSeq(s, Len(s) - Len(suffix) + 1, Len(s)) = suffix

\* The paths main may be started with.
ServerPaths ==
    { <<"s", ".", "p", "y">>,
      <<"s", ".", "j", "s">>,
      <<"s", ".", "t", "s">>,
      <<"s", ".", "t", "x", "t">>,
      <<"p", "y">> }

\* The test of the extension in connect_to_server: client.py takes .py, .ts
\* and .js, openai_client.py .py and .ts.
AcceptedScript(c, path) ==
    \/ EndsWith(path, <<".", "p", "y">>)
    \/ EndsWith(path, <<".", "t", "s">>)
    \/ c = "client" /\ EndsWith(path, <<".", "j", "s">>)

\* command = "python" if is_python else "node"
Command(path) ==
    IF EndsWith(path, <<".", "p", "y">>) THEN "python" ELSE "node"

\* Where an exception that leaves main's try block goes: client.py has an
\* except clause before the finally clause, openai_client.py only finally.
AfterException(c) == IF c = "client" THEN "except" ELSE "finally"

\* The chat loop starts without the handshake.
SessionAfterConnect_NoHandshake(s) == s

\* The session once `await self.session.initialize()` returned.
SessionAfterConnect(s) == "Ready"

\* The session once exit_stack.aclose() returned: the contexts entered by
\* connect_to_server, if any, are left.
SessionAfterCleanup(s) == IF s \in {"Connecting", "Ready"} THEN "Closed" ELSE s

\* How a query can fail: a session request raises out of process_query, or
\* the model API does.
QueryFailures == {"protocol", "model_api"}

\* The exception of the query leaves the chat loop.
OnQueryError_Propagates(c, kind) ==
    [pc |-> AfterException(c), exc |-> kind, reported |-> {}]

\* except Exception as e: print(...) around process_query, in converse()
\* of client.py and in chat_loop() of openai_client.py: the loop goes on.
OnQueryError(c, kind) ==
    [pc |-> "converse", exc |-> "none", reported |-> {kind}]

\* The pcs of the chat loop.
InChatLoop == main_pc \in {"menu", "converse", "query", "action"}

MainInit ==
    /\ LoopIdle
    /\ PromptIdle
    /\ CatalogIdle
    /\ provider = NoProvider
    /\ client \in Clients
    /\ server_script_path \in ServerPaths
    /\ main_pc = "start"
    /\ session_state = "Disconnected"
    /\ exc = "none"
    /\ reported = {}
    /\ cleaned = FALSE
    /\ request_states = {}
    /\ outcomes = <<>>
    /\ edges = {}
    /\ spawned = "none"
    /\ WriteIdle
    /\ ServerIdle

\* connect_to_server refuses the extension: ValueError, before any transport.
ConnectRejects ==
    /\ main_pc = "start"
    /\ ~AcceptedScript(client, server_script_path)
    /\ exc' = "ValueError"
    /\ main_pc' = AfterException(client)
    /\ UNCHANGED <<providerVars, client, loopVars, elicitVars, provider, promptVars,
                   catalogVars, server_script_path, spawned, session_state, reported,
                   cleaned, request_states, outcomes, edges>>

\* connect_to_server starts the provider process over stdio.
ConnectStarts ==
    /\ main_pc = "start"
    /\ AcceptedScript(client, server_script_path)
    /\ session_state' = "Connecting"
    /\ edges' = edges \cup {<<session_state, session_state'>>}
    /\ spawned' = Command(server_script_path)
    /\ main_pc' = "transport"
    /\ UNCHANGED <<providerVars, client, loopVars, elicitVars, provider,
                   promptVars, catalogVars, server_script_path, exc, reported,
                   cleaned, request_states, outcomes>>

\* The transport and the ClientSession are entered on the exit stack.
TransportUp ==
    /\ main_pc = "transport"
    /\ main_pc' = "initialize"
    /\ UNCHANGED <<providerVars, client, loopVars, elicitVars, provider, promptVars,
                   catalogVars, server_script_path, spawned, session_state, exc,
                   reported, cleaned, request_states, outcomes, edges>>

\* Entering the transport, or the handshake, raises.
ConnectFails ==
    /\ main_pc \in {"transport", "initialize"}
    /\ exc' = "ConnectError"
    /\ main_pc' = AfterException(client)
    /\ UNCHANGED <<providerVars, client, loopVars, elicitVars, provider, promptVars,
                   catalogVars, server_script_path, spawned, session_state, reported,
                   cleaned, request_states, outcomes, edges>>

\* session.initialize() returns: connect_to_server is over and main calls
\* chat_loop (the menu of client.py, the query loop of openai_client.py).
InitializeReturns ==
    /\ main_pc = "initialize"
    /\ session_state' = SessionAfterConnect(session_state)
    /\ edges' = IF session_state' = session_state THEN edges
                ELSE edges \cup {<<session_state, session_state'>>}
    /\ main_pc' = IF client = "client" THEN "menu" ELSE "converse"
    /\ UNCHANGED <<providerVars, client, loopVars, elicitVars, provider, promptVars,
                   catalogVars, server_script_path, spawned, exc, reported, cleaned,
                   request_states, outcomes>>

\* client.py, menu choice 5: converse().
MenuConverse ==
    /\ main_pc = "menu"
    /\ main_pc' = "converse"
    /\ UNCHANGED <<providerVars, client, loopVars, elicitVars, provider, promptVars,
                   catalogVars, server_script_path, spawned, session_state, exc,
                   reported, cleaned, request_states, outcomes, edges>>

\* client.py, menu choices 1 to 4: prompt(), read_file() or read_dir().
MenuAction ==
    /\ main_pc = "menu"
    /\ Len(outcomes) < MaxQueries
    /\ main_pc' = "action"
    /\ UNCHANGED <<providerVars, client, loopVars, elicitVars, provider, promptVars,
                   catalogVars, server_script_path, spawned, session_state, exc,
                   reported, cleaned, request_states, outcomes, edges>>

\* The menu action ends; each of them catches and prints every Exception.
ActionEnds ==
    /\ main_pc = "action"
    /\ \E kind \in {"returned"} \cup QueryFailures :
           /\ outcomes' = Append(outcomes, kind)
           /\ reported' = IF kind \in QueryFailures
                          THEN reported \cup {kind} ELSE reported
    /\ main_pc' = "menu"
    /\ UNCHANGED <<providerVars, client, loopVars, elicitVars, provider, promptVars,
                   catalogVars, server_script_path, spawned, session_state, exc,
                   cleaned, request_states, edges>>

\* The operator enters a query: process_query is called.
StartQuery ==
    /\ main_pc = "converse"
    /\ Len(outcomes) < MaxQueries
    /\ main_pc' = "query"
    /\ UNCHANGED <<providerVars, client, loopVars, elicitVars, provider, promptVars,
                   catalogVars, server_script_path, spawned, session_state, exc,
                   reported, cleaned, request_states, outcomes, edges>>

\* A session request is issued by the running query or menu action.
Request ==
    /\ main_pc \in {"query", "action"}
    /\ request_states' = request_states \cup {session_state}
    /\ UNCHANGED <<providerVars, client, loopVars, elicitVars, provider, promptVars,
                   catalogVars, server_script_path, spawned, main_pc, session_state,
                   exc, reported, cleaned, outcomes, edges>>

\* process_query returns and its answer is printed.
QueryReturns ==
    /\ main_pc = "query"
    /\ outcomes' = Append(outcomes, "returned")
    /\ main_pc' = "converse"
    /\ UNCHANGED <<providerVars, client, loopVars, elicitVars, provider, promptVars,
                   catalogVars, server_script_path, spawned, session_state, exc,
                   reported, cleaned, request_states, edges>>

\* An exception leaves process_query.
QueryRaises ==
    /\ main_pc = "query"
    /\ \E kind \in QueryFailures :
           /\ outcomes' = Append(outcomes, kind)
           /\ main_pc' = OnQueryError(client, kind).pc
           /\ exc' = OnQueryError(client, kind).exc
           /\ reported' = reported \cup OnQueryError(client, kind).reported
    /\ UNCHANGED <<providerVars, client, loopVars, elicitVars, provider, promptVars,
                   catalogVars, server_script_path, spawned, session_state, cleaned,
                   request_states, edges>>

\* client.py: quit typed in converse() returns to the menu.
LeaveConverse ==
    /\ client = "client"
    /\ main_pc = "converse"
    /\ main_pc' = "menu"
    /\ UNCHANGED <<providerVars, client, loopVars, elicitVars, provider, promptVars,
                   catalogVars, server_script_path, spawned, session_state, exc,
                   reported, cleaned, request_states, outcomes, edges>>

\* Quit at the menu of client.py or in the loop of openai_client.py:
\* chat_loop returns and main's try block is left normally.
Quit ==
    /\ main_pc = IF client = "client" THEN "menu" ELSE "converse"
    /\ main_pc' = "finally"
    /\ UNCHANGED <<providerVars, client, loopVars, elicitVars, provider, promptVars,
                   catalogVars, server_script_path, spawned, session_state, exc,
                   reported, cleaned, request_states, outcomes, edges>>

\* input() raises EOFError.  In client.py the call is outside every try of
\* the chat loop; in openai_client.py it is inside the try of the loop,
\* which prints the error and goes on.
InputRaises ==
    /\ main_pc \in {"menu", "converse"}
    /\ IF client = "client"
       THEN /\ exc' = "EOFError"
            /\ main_pc' = "except"
            /\ reported' = reported
       ELSE /\ exc' = exc
            /\ main_pc' = main_pc
            /\ reported' = reported \cup {"EOFError"}
    /\ UNCHANGED <<providerVars, client, loopVars, elicitVars, provider, promptVars,
                   catalogVars, server_script_path, spawned, session_state, cleaned,
                   request_states, outcomes, edges>>

\* client.py: except Exception as e: print(...)
Except ==
    /\ main_pc = "except"
    /\ reported' = reported \cup {exc}
    /\ exc' = "none"
    /\ main_pc' = "finally"
    /\ UNCHANGED <<providerVars, client, loopVars, elicitVars, provider, promptVars,
                   catalogVars, server_script_path, spawned, session_state, cleaned,
                   request_states, outcomes, edges>>

\* finally: await client.cleanup().  After it main returns, or the
\* exception no clause caught leaves main and asyncio.run.
Cleanup ==
    /\ main_pc = "finally"
    /\ cleaned' = TRUE
    /\ session_state' = SessionAfterCleanup(session_state)
    /\ edges' = IF session_state' = session_state THEN edges
                ELSE edges \cup {<<session_state, session_state'>>}
    /\ main_pc' = IF exc = "none" THEN "exited" ELSE "crashed"
    /\ UNCHANGED <<providerVars, client, loopVars, elicitVars, provider, promptVars,
                   catalogVars, server_script_path, spawned, exc, reported,
                   request_states, outcomes>>

MainNext ==
    \/ ConnectRejects
    \/ ConnectStarts
    \/ TransportUp
    \/ ConnectFails
    \/ InitializeReturns
    \/ MenuConverse
    \/ MenuAction
    \/ ActionEnds
    \/ StartQuery
    \/ Request
    \/ QueryReturns
    \/ QueryRaises
    \/ LeaveConverse
    \/ Quit
    \/ InputRaises
    \/ Except
    \/ Cleanup

MainSpec == MainInit /\ [][MainNext]_vars

(***************************************************************************)
(* write_file of server.py: the chunked write and its progress reports.    *)
(***************************************************************************)
\* Characters of the content write_file is given.
MaxLen == 23

\* The contents: the k-th character of each is k, so that a chunk tells
\* where in the content it comes from.
Contents == {[k \in 1..n |-> k] : n \in 0..MaxLen}

Min(a, b) == IF a <= b THEN a ELSE b
Max(a, b) == IF a >= b THEN a ELSE b

\* chunk_size = max(total // 10, 1)
ChunkSize(total) == Max(total \div 10, 1)

\* The end of the chunk is not cut at the end of the content.
ChunkEnd_Uncut(i, chunk_size, total) == i + chunk_size

\* min(i+chunk_size, total)
ChunkEnd(i, chunk_size, total) == Min(i + chunk_size, total)

\* content[i:j], with 0 <= i
Slice(s, i, j) == SubSeq(s, i + 1, Min(j, Len(s)))

Report(progress, total, message) ==
    [progress |-> progress, total |-> total, message |-> message]

WriteInit ==
    /\ client \in Clients
    /\ LoopIdle
    /\ PromptIdle
    /\ CatalogIdle
    /\ MainIdle
    /\ ServerIdle
    /\ provider = NoProvider
    /\ w_pc = "open"
    /\ w_content \in Contents
    /\ w_pos = 0
    /\ written = 0
    /\ chunks = <<>>
    /\ reports = <<>>

\* get_path, mkdir or open raises: nothing is written or reported, and
\* the except clause re-raises.
OpenRaises ==
    /\ w_pc = "open"
    /\ w_pc' = "raised"
    /\ UNCHANGED <<client, loopVars, elicitVars, provider, promptVars,
                   catalogVars, mainVars, serverVars, w_content, w_pos,
                   written, chunks, reports>>

\* with open(path, "w", encoding='utf-8') as f: the loop is entered.
OpenFile ==
    /\ w_pc = "open"
    /\ w_pc' = "loop"
    /\ UNCHANGED <<client, loopVars, elicitVars, provider, promptVars,
                   catalogVars, mainVars, serverVars, w_content, w_pos,
                   written, chunks, reports>>

\* One iteration of for i in range(0, total, chunk_size): the chunk is
\* written and the progress reported.
WriteChunk ==
    /\ w_pc = "loop"
    /\ w_pos < Len(w_content)
    /\ LET total == Len(w_content)
           chunk_size == ChunkSize(total)
       IN  /\ chunks' = Append(chunks,
                               Slice(w_content, w_pos, w_pos + chunk_size))
           /\ written' = ChunkEnd(w_pos, chunk_size, total)
           /\ reports' = Append(reports,
                                Report(written', total, "Writing progress"))
           /\ w_pos' = w_pos + chunk_size
    /\ UNCHANGED <<client, loopVars, elicitVars, provider, promptVars,
                   catalogVars, mainVars, serverVars, w_pc, w_content>>

\* f.write or report_progress raises inside the loop.
WriteRaises ==
    /\ w_pc = "loop"
    /\ w_pos < Len(w_content)
    /\ w_pc' = "raised"
    /\ UNCHANGED <<client, loopVars, elicitVars, provider, promptVars,
                   catalogVars, mainVars, serverVars, w_content, w_pos,
                   written, chunks, reports>>

\* The range is exhausted: the file is closed, the last report is made and
\* the success message returned.
WriteComplete ==
    /\ w_pc = "loop"
    /\ w_pos >= Len(w_content)
    /\ reports' = Append(reports, Report(Len(w_content), Len(w_content),
                                         "Write complete"))
    /\ w_pc' = "returned"
    /\ UNCHANGED <<client, loopVars, elicitVars, provider, promptVars,
                   catalogVars, mainVars, serverVars, w_content, w_pos,
                   written, chunks>>

WriteNext ==
    \/ OpenRaises
    \/ OpenFile
    \/ WriteChunk
    \/ WriteRaises
    \/ WriteComplete

WriteSpec == WriteInit /\ [][WriteNext]_vars

(***************************************************************************)
(* server.py: get_path and the file system it guards.                      *)
(*                                                                         *)
(* A location is the sequence of names from the root to an entry.  A path  *)
(* is what pathlib holds: whether it is absolute, and its parts, among     *)
(* which ".." may occur.  The file system maps the locations that exist to *)
(* their entries.                                                          *)
(***************************************************************************)
\* BASE_DIR = Path.cwd(): the working directory of the provider, which it
\* never changes.
BASE_DIR == <<"w">>

Dir == [kind |-> "dir", size |-> 0, utf8 |-> TRUE, target |-> <<>>]
File(size, utf8) ==
    [kind |-> "file", size |-> size, utf8 |-> utf8, target |-> <<>>]
Link(target) == [kind |-> "link", size |-> 0, utf8 |-> TRUE, target |-> target]

\* The base directory is empty; x, outside of it, holds a file.
EmptyBase ==
    (<<>> :> Dir) @@ (<<"w">> :> Dir) @@ (<<"x">> :> Dir)
        @@ (<<"x", "c">> :> File(3, TRUE))

\* One file a.txt of 10 bytes and one subdirectory b.
FileAndDir ==
    EmptyBase @@ (<<"w", "a.txt">> :> File(10, TRUE)) @@ (<<"w", "b">> :> Dir)

\* And a file in b that is no UTF-8 text, and a link that leaves the base.
WithLink ==
    FileAndDir @@ (<<"w", "b", "c">> :> File(3, FALSE))
        @@ (<<"w", "l">> :> Link(<<"x">>))

FileSystems == {EmptyBase, FileAndDir, WithLink}

\* Path(s) of the strings the provider is given.
RelPath(parts) == [abs |-> FALSE, parts |-> parts]
AbsPath(parts) == [abs |-> TRUE, parts |-> parts]

PathInputs ==
    { RelPath(<<>>),
      RelPath(<<"a.txt">>),
      RelPath(<<"b">>),
      RelPath(<<"b", "c">>),
      RelPath(<<"n">>),
      RelPath(<<"n", "c">>),
      RelPath(<<"a.txt", "c">>),
      RelPath(<<"b", "..", "a.txt">>),
      RelPath(<<"..", "x", "c">>),
      RelPath(<<"l", "c">>),
      AbsPath(<<"w", "a.txt">>),
      AbsPath(<<"x", "c">>) }

\* What is at a location.
KindAt(f, loc) == IF loc \in DOMAIN f THEN f[loc].kind ELSE "absent"

RECURSIVE Walk(_, _, _)
\* The location the parts lead to from cur: ".." goes up, a link is
\* followed, a name that does not exist is kept.
Walk(cur, parts, f) ==
    IF parts = <<>> THEN cur
    ELSE IF Head(parts) = "." THEN Walk(cur, Tail(parts), f)
    ELSE IF Head(parts) = ".."
    THEN Walk(IF cur = <<>> THEN cur ELSE SubSeq(cur, 1, Len(cur) - 1),
              Tail(parts), f)
    ELSE LET next == Append(cur, Head(parts))
         IN  IF KindAt(f, next) = "link"
             THEN Walk(f[next].target, Tail(parts), f)
             ELSE Walk(next, Tail(parts), f)

\* The location an operation of the operating system on path p acts on:
\* relative paths start at the working directory.
Locate(p, f) == Walk(IF p.abs THEN <<>> ELSE BASE_DIR, p.parts, f)

\* The path is made absolute, and neither ".." nor links are resolved.
Resolve_Lexical(p, f) ==
    AbsPath((IF p.abs THEN <<>> ELSE BASE_DIR) \o p.parts)

\* Path.resolve(): absolute, without "..", links followed.
Resolve(p, f) == AbsPath(Locate(p, f))

IsPrefix(s, r) == Len(s) <= Len(r) /\ SubSeq(r, 1, Len(s)) = s

\* p.relative_to(other): ValueError (ok is FALSE) when other is no prefix of
\* p, or when one is absolute and the other is not.
RelativeTo(p, other) ==
    IF p.abs = other.abs /\ IsPrefix(other.parts, p.parts)
    THEN [ok |-> TRUE,
          path |-> RelPath(SubSeq(p.parts, Len(other.parts) + 1, Len(p.parts)))]
    ELSE [ok |-> FALSE, path |-> RelPath(<<>>)]

\* get_path(relative_path): the path relative to BASE_DIR, or ValueError.
get_path(relative_path, f) ==
    RelativeTo(Resolve(relative_path, f), AbsPath(BASE_DIR))

\* The location is the base directory or below it.
Inside(loc) == IsPrefix(BASE_DIR, loc)

(***************************************************************************)
(* server.py: the tools, resources and prompts, as functions of the file   *)
(* system and their arguments.  Each gives the file system it leaves, how  *)
(* it ended (returned or raised), its answer, and the file operations it   *)
(* performed with the locations they acted on.                             *)
(***************************************************************************)
Answer(status, key, detail, items) ==
    [status |-> status, key |-> key, detail |-> detail, items |-> items]

Returns(key, detail) == Answer("returned", key, detail, {})
Raises(detail) == Answer("raised", "exception", detail, {})

Outcome(f, answer, ops) == [fs |-> f, answer |-> answer, touched |-> ops]

Op(name, loc) == [op |-> name, loc |-> loc]

\* path.parent
Parent(p) ==
    RelPath(IF p.parts = <<>> THEN <<>>
            ELSE SubSeq(p.parts, 1, Len(p.parts) - 1))

\* The directory loc and those above it.
Prefixes(loc) == {SubSeq(loc, 1, k) : k \in 0..Len(loc)}

\* mkdir(parents=True, exist_ok=True) of the directory at loc: the missing
\* directories are made; FileExistsError when a file is in the way.
MkdirParents(f, loc) ==
    LET missing == {d \in Prefixes(loc) : KindAt(f, d) = "absent"}
    IN  IF \E d \in Prefixes(loc) : KindAt(f, d) = "file"
        THEN [ok |-> FALSE, fs |-> f, made |-> {}]
        ELSE [ok |-> TRUE,
              fs |-> [d \in DOMAIN f \cup missing |->
                         IF d \in missing THEN Dir ELSE f[d]],
              made |-> missing]

\* path.is_file(), path.is_dir(), path.exists()
IsFile(f, p) == KindAt(f, Locate(p, f)) = "file"
IsDir(f, p) == KindAt(f, Locate(p, f)) = "dir"
Exists(f, p) == KindAt(f, Locate(p, f)) # "absent"

\* write_file(file_path, content, ctx), for a content of the given length.
write_file(f, file_path, total) ==
    LET g == get_path(file_path, f)
        made == MkdirParents(f, Locate(Parent(g.path), f))
        mkdirs == {Op("mkdir", d) : d \in made.made}
        loc == Locate(g.path, made.fs)
    IN  IF ~g.ok THEN Outcome(f, Raises("ValueError"), {})
        ELSE IF ~made.ok THEN Outcome(f, Raises("FileExistsError"), {})
        ELSE IF KindAt(made.fs, loc) = "dir"
        THEN Outcome(made.fs, Raises("IsADirectoryError"), mkdirs)
        ELSE Outcome([d \in DOMAIN made.fs \cup {loc} |->
                         IF d = loc THEN File(total, TRUE) ELSE made.fs[d]],
                     Returns("text", "File written successfully"),
                     mkdirs \cup {Op("write", loc)})

\* The exception of delete_file leaves the tool.
OnDeleteError_Raises(e) == Raises(e)

\* except Exception as e: return f"Error deleting file: {str(e)}"
OnDeleteError(e) == Returns("text", "Error deleting file")

\* delete_file(file_path, ctx); denied: the operating system refuses the
\* unlink (PermissionError).
delete_file(f, file_path, denied) ==
    LET g == get_path(file_path, f)
        loc == Locate(g.path, f)
    IN  IF ~g.ok THEN Outcome(f, OnDeleteError("ValueError"), {})
        ELSE IF IsFile(f, g.path)
        THEN IF denied
             THEN Outcome(f, OnDeleteError("PermissionError"),
                          {Op("unlink", loc)})
             ELSE Outcome([d \in DOMAIN f \ {loc} |-> f[d]],
                          Returns("text", "Successfully deleted file"),
                          {Op("unlink", loc)})
        ELSE IF IsDir(f, g.path)
        THEN Outcome(f, Returns("text", "Error: is a directory, not a file"),
                     {})
        ELSE Outcome(f, Returns("text", "File not found"), {})

\* The exception of a resource function leaves it.
OnResourceError_Raises(e) == Raises(e)

\* except Exception as e: return {"error": ...}
OnResourceError(e) == Returns("error", e)

\* read_file_resource(file_name)
read_file_resource(f, file_name) ==
    LET g == get_path(file_name, f)
        loc == Locate(g.path, f)
    IN  IF ~g.ok THEN Outcome(f, OnResourceError("ValueError"), {})
        ELSE IF ~Exists(f, g.path) \/ ~IsFile(f, g.path)
        THEN Outcome(f, Returns("error", "is not a valid file"), {})
        ELSE IF ~f[loc].utf8
        THEN Outcome(f, OnResourceError("UnicodeDecodeError"),
                     {Op("read", loc)})
        ELSE Outcome(f, Returns("file_content", "text"), {Op("read", loc)})

\* The entries of the directory at loc.
Entries(f, loc) ==
    {d \in DOMAIN f : Len(d) = Len(loc) + 1 /\ IsPrefix(loc, d)}

\* One iteration of the loop over path.iterdir(): item is path / name;
\* ok is FALSE where item.stat() or item.relative_to(BASE_DIR) raises.
DirItem(f, path, name) ==
    LET item == RelPath(Append(path.parts, name))
        rel == RelativeTo(item, AbsPath(BASE_DIR))
    IN  [ok |-> Exists(f, item) /\ rel.ok,
         name |-> name,
         path |-> rel.path.parts,
         type |-> IF IsDir(f, item) THEN "directory" ELSE "file",
         size |-> IF Exists(f, item) THEN f[Locate(item, f)].size ELSE 0]

\* list_files_resource()
list_files_resource(f) ==
    LET g == get_path(RelPath(<<".">>), f)
        loc == Locate(g.path, f)
        items == {DirItem(f, g.path, d[Len(d)]) : d \in Entries(f, loc)}
    IN  IF ~g.ok THEN Outcome(f, OnResourceError("ValueError"), {})
        ELSE IF ~Exists(f, g.path) \/ ~IsDir(f, g.path)
        THEN Outcome(f, Returns("error", "is not a valid directory"), {})
        ELSE IF \E it \in items : ~it.ok
        THEN Outcome(f, OnResourceError("ValueError"), {Op("iterdir", loc)})
        ELSE Outcome(f, Answer("returned", "items", "", items),
                     {Op("iterdir", loc)})

\* The body both prompts share once file_path is known: get_path, the test
\* of the file, read_text, the prompt text.  Every exception is logged and
\* raised again.
ReadForPrompt(f, file_path) ==
    LET g == get_path(file_path, f)
        loc == Locate(g.path, f)
    IN  IF ~g.ok THEN Outcome(f, Raises("ValueError"), {})
        ELSE IF ~Exists(f, g.path) \/ ~IsFile(f, g.path)
        THEN Outcome(f, Raises("FileNotFoundError"), {})
        ELSE IF ~f[loc].utf8
        THEN Outcome(f, Raises("UnicodeDecodeError"), {Op("read", loc)})
        ELSE Outcome(f, Returns("prompt", "text"), {Op("read", loc)})

\* code_review(file_path, ctx)
code_review(f, file_path) == ReadForPrompt(f, file_path)

\* Path(s) of a line of text: the names between the slashes; absolute when
\* the line begins with a slash.
PathOf(s) ==
    [abs |-> s # <<>> /\ Head(s) = "/",
     parts |-> SelectSeq(s, LAMBDA c : c # "/")]

\* ctx.elicit never returned.
NoElicitation == [action |-> "none", data |-> EmptyDict]

\* The prompt is built on a file of its own choice when no data came.
documentation_generator_DefaultFile(f, result) ==
    IF result.action # "accept"
    THEN ReadForPrompt(f, RelPath(<<"a.txt">>))
    ELSE ReadForPrompt(f, PathOf(result.data["file_path"].s))

\* documentation_generator(ctx) from the return of ctx.elicit on: only an
\* accepted result has data, so result.data.file_path raises AttributeError
\* on every other one.
documentation_generator(f, result) ==
    IF result.action # "accept"
    THEN Outcome(f, Raises("AttributeError"), {})
    ELSE ReadForPrompt(f, PathOf(result.data["file_path"].s))

(***************************************************************************)
(* The provider serving requests, one at a time, on a file system.         *)
(***************************************************************************)
\* Requests the provider serves in one run.
MaxRequests == 2

\* The lengths of the contents write_file is given here.
ContentLengths == {0, 10}

\* The lines the operator types for file_path when documentation_generator
\* elicits: names, slashes and blanks.
FileLines ==
    { <<>>,
      <<"a.txt">>,
      <<" ", "b", "/", "c", " ">>,
      <<"n">>,
      <<"..", "/", "x", "/", "c">>,
      <<"/", "x", "/", "c">> }

\* The line typed for name.
NameLine == <<"d.md">>

NoRequest == [name |-> "none", path |-> RelPath(<<>>)]
Request_(name, path) == [name |-> name, path |-> path]
NoAnswer == Answer("none", "none", "", {})

\* The provider goes on without the result of the elicitation.
AfterElicit_NoAwait == "resume"

\* result = await ctx.elicit(...): the handler is suspended until the
\* result of the elicitation arrives.
AfterElicit == "elicit"

ServerInit ==
    /\ client \in Clients
    /\ LoopIdle
    /\ PromptIdle
    /\ CatalogIdle
    /\ MainIdle
    /\ WriteIdle
    /\ provider = NoProvider
    /\ fs \in FileSystems
    /\ srv_pc = "idle"
    /\ srv_req = NoRequest
    /\ srv_out = NoAnswer
    /\ el_result = NoElicitation
    /\ touched = {}
    /\ events = <<>>
    /\ served = 0

\* The requests below are answered without anything being asked back: the
\* tool, resource or prompt function runs to its end.

\* call_tool write_file
CallWriteFile ==
    /\ srv_pc = "idle"
    /\ served < MaxRequests
    /\ \E p \in PathInputs, total \in ContentLengths :
           LET out == write_file(fs, p, total)
           IN  /\ srv_req' = Request_("write_file", p)
               /\ fs' = out.fs
               /\ srv_out' = out.answer
               /\ touched' = out.touched
    /\ events' = <<"request", "response">>
    /\ served' = served + 1
    /\ el_result' = NoElicitation
    /\ UNCHANGED <<client, loopVars, elicitVars, provider, promptVars,
                   catalogVars, mainVars, writeVars, srv_pc>>

\* call_tool delete_file
CallDeleteFile ==
    /\ srv_pc = "idle"
    /\ served < MaxRequests
    /\ \E p \in PathInputs, denied \in BOOLEAN :
           LET out == delete_file(fs, p, denied)
           IN  /\ srv_req' = Request_("delete_file", p)
               /\ fs' = out.fs
               /\ srv_out' = out.answer
               /\ touched' = out.touched
    /\ events' = <<"request", "response">>
    /\ served' = served + 1
    /\ el_result' = NoElicitation
    /\ UNCHANGED <<client, loopVars, elicitVars, provider, promptVars,
                   catalogVars, mainVars, writeVars, srv_pc>>

\* read_resource file:///{file_name}
ReadFileResource ==
    /\ srv_pc = "idle"
    /\ served < MaxRequests
    /\ \E p \in PathInputs :
           LET out == read_file_resource(fs, p)
           IN  /\ srv_req' = Request_("read_file_resource", p)
               /\ fs' = out.fs
               /\ srv_out' = out.answer
               /\ touched' = out.touched
    /\ events' = <<"request", "response">>
    /\ served' = served + 1
    /\ el_result' = NoElicitation
    /\ UNCHANGED <<client, loopVars, elicitVars, provider, promptVars,
                   catalogVars, mainVars, writeVars, srv_pc>>

\* read_resource dir://.
ListFilesResource ==
    /\ srv_pc = "idle"
    /\ served < MaxRequests
    /\ LET out == list_files_resource(fs)
       IN  /\ srv_req' = Request_("list_files_resource", RelPath(<<".">>))
           /\ fs' = out.fs
           /\ srv_out' = out.answer
           /\ touched' = out.touched
    /\ events' = <<"request", "response">>
    /\ served' = served + 1
    /\ el_result' = NoElicitation
    /\ UNCHANGED <<client, loopVars, elicitVars, provider, promptVars,
                   catalogVars, mainVars, writeVars, srv_pc>>

\* get_prompt code_review
GetCodeReview ==
    /\ srv_pc = "idle"
    /\ served < MaxRequests
    /\ \E p \in PathInputs :
           LET out == code_review(fs, p)
           IN  /\ srv_req' = Request_("code_review", p)
               /\ fs' = out.fs
               /\ srv_out' = out.answer
               /\ touched' = out.touched
    /\ events' = <<"request", "response">>
    /\ served' = served + 1
    /\ el_result' = NoElicitation
    /\ UNCHANGED <<client, loopVars, elicitVars, provider, promptVars,
                   catalogVars, mainVars, writeVars, srv_pc>>

\* get_prompt documentation_generator arrives: the provider sends its
\* elicitation request.
GetDocumentationGenerator ==
    /\ srv_pc = "idle"
    /\ served < MaxRequests
    /\ srv_req' = Request_("documentation_generator", RelPath(<<>>))
    /\ srv_out' = NoAnswer
    /\ el_result' = NoElicitation
    /\ touched' = {}
    /\ events' = <<"request", "elicitation">>
    /\ srv_pc' = AfterElicit
    /\ UNCHANGED <<client, loopVars, elicitVars, provider, promptVars,
                   catalogVars, mainVars, writeVars, fs, served>>

\* The session of the client runs handle_elicitation, the operator types a
\* line per field, and the result goes back to the provider.
HandlerAnswers ==
    /\ srv_pc = "elicit"
    /\ \E line \in FileLines :
           LET inputs == <<line, NameLine>>
               out == handle_elicitation(client, DocumentGeneratorProperties,
                                         inputs)
           IN  el_result' =
                   IF out.status = "returned"
                   THEN [action |-> out.action, data |-> out.content]
                   ELSE [action |-> "error", data |-> EmptyDict]
    /\ events' = events \o <<"handler", "elicitation_result">>
    /\ srv_pc' = "resume"
    /\ UNCHANGED <<client, loopVars, elicitVars, provider, promptVars,
                   catalogVars, mainVars, writeVars, fs, srv_req, srv_out,
                   touched, served>>

\* A peer other than the two clients, whose handler declines or cancels.
PeerDeclines ==
    /\ srv_pc = "elicit"
    /\ \E action \in {"decline", "cancel"} :
           el_result' = [action |-> action, data |-> EmptyDict]
    /\ events' = events \o <<"handler", "elicitation_result">>
    /\ srv_pc' = "resume"
    /\ UNCHANGED <<client, loopVars, elicitVars, provider, promptVars,
                   catalogVars, mainVars, writeVars, fs, srv_req, srv_out,
                   touched, served>>

\* documentation_generator goes on after ctx.elicit and answers get_prompt.
DocumentationGeneratorResumes ==
    /\ srv_pc = "resume"
    /\ LET out == documentation_generator(fs, el_result)
       IN  /\ fs' = out.fs
           /\ srv_out' = out.answer
           /\ touched' = out.touched
    /\ events' = Append(events, "response")
    /\ served' = served + 1
    /\ srv_pc' = "idle"
    /\ UNCHANGED <<client, loopVars, elicitVars, provider, promptVars,
                   catalogVars, mainVars, writeVars, srv_req, el_result>>

ServerNext ==
    \/ CallWriteFile
    \/ CallDeleteFile
    \/ ReadFileResource
    \/ ListFilesResource
    \/ GetCodeReview
    \/ GetDocumentationGenerator
    \/ HandlerAnswers
    \/ PeerDeclines
    \/ DocumentationGeneratorResumes

ServerSpec == ServerInit /\ [][ServerNext]_vars

(***************************************************************************)
(* Properties of the agentic loop (checked under Spec).                    *)
(***************************************************************************)
IsToolUse(block) == block.type = "tool_use"

\* The ids of the tool_use blocks of a turn, in the order of the blocks.
ToolUseIds(content) ==
    LET uses == SelectSeq(content, IsToolUse)
    IN  [i \in 1..Len(uses) |-> uses[i].id]

\* The tool_use ids the results of a turn answer, in the order of the results.
ResultIds(results) == [j \in 1..Len(results) |-> results[j].tool_use_id]

AssistantTurns == {n \in 1..Len(messages) : messages[n].role = "assistant"}

\* The turns that carry tool results: the user turns after the query.
ResultTurns == {n \in 2..Len(messages) : messages[n].role = "user"}

\* Every tool result produced so far in the run.
AllResults ==
    {tool_results[j] : j \in 1..Len(tool_results)}
        \cup UNION {{messages[n].content[j] : j \in 1..Len(messages[n].content)} :
                        n \in ResultTurns}

\* C1: every assistant turn of the conversation is followed by a user turn
\* that holds exactly one tool_result per tool_use block of it, matched by
\* id; while that user turn is missing the loop is still executing the
\* round, so no model call is issued before it is appended.
C1_OneResultPerToolUse ==
    \A n \in AssistantTurns :
        IF n = Len(messages)
        THEN pc \in {"for_each", "await"}
        ELSE LET uses == ToolUseIds(messages[n].content)
                 results == messages[n + 1].content
             IN  /\ messages[n + 1].role = "user"
                 /\ Len(results) = Len(uses)
                 /\ \A j \in 1..Len(results) : results[j].type = "tool_result"
                 /\ \A i \in 1..Len(uses) :
                        Cardinality({j \in 1..Len(results) :
                            results[j].tool_use_id = uses[i]}) = 1

\* C1 witness: the next model call is about to be issued after a round of
\* three blocks whose two tool calls ended differently: the first returned,
\* the second raised.
C1_MixedRoundAppended ==
    /\ pc = "call_model"
    /\ Len(messages) >= 3
    /\ Len(messages[Len(messages) - 1].content) = 3
    /\ LET results == messages[Len(messages)].content
       IN  /\ Len(results) = 2
           /\ ~results[1].is_error
           /\ results[2].is_error

\* C2: an invocation that raised never leaves process_query: the only
\* exceptions that do are those of list_tools and of the model API; the
\* raised invocation has exactly one result, flagged is_error, whose content
\* is "Error: " and the message; and every tool_use block of a finished
\* round, those after the failed one included, has its result.
C2_FailureBecomesErrorResult ==
    /\ pc = "raised" => error \in {"list_tools", "messages.create"}
    /\ \A id \in failed_calls :
           /\ Cardinality({r \in AllResults : r.tool_use_id = id}) = 1
           /\ \A r \in AllResults :
                  r.tool_use_id = id =>
                      /\ r.is_error
                      /\ r.content \in {ErrorContent("McpError"),
                                        ErrorContent("KeyError")}
    /\ \A n \in AssistantTurns :
           n < Len(messages) =>
               \A i \in 1..Len(messages[n].content) :
                   IsToolUse(messages[n].content[i]) =>
                       \E r \in AllResults :
                           r.tool_use_id = messages[n].content[i].id

\* C2 witness: the model was called again, and answered, after a round
\* whose first tool call raised at the provider and whose second one returned.
C2_ModelCalledAfterFailure ==
    /\ pc = "done"
    /\ Len(messages) >= 3
    /\ LET results == messages[Len(messages)].content
       IN  /\ Len(results) >= 2
           /\ results[1].is_error
           /\ results[1].content = ErrorContent("McpError")
           /\ results[1].tool_use_id \in failed_calls
           /\ ~results[2].is_error

\* C3: the results of a round are in the order of the tool_use blocks they
\* answer: in every appended user turn, and in tool_results while the round
\* is being executed.
C3_ResultsInToolUseOrder ==
    /\ \A n \in AssistantTurns :
           n < Len(messages) =>
               ResultIds(messages[n + 1].content) = ToolUseIds(messages[n].content)
    /\ pc \in {"for_each", "await"} =>
           /\ Len(tool_results) <= Len(ToolUseIds(response.content))
           /\ ResultIds(tool_results) =
                  SubSeq(ToolUseIds(response.content), 1, Len(tool_results))

\* C3 witness: an appended user turn with three results, the middle one of
\* a call that raised, the others of calls that returned.
C3_ThreeResultsMixed ==
    \E n \in ResultTurns :
        /\ Len(messages[n].content) = 3
        /\ ~messages[n].content[1].is_error
        /\ messages[n].content[2].is_error
        /\ ~messages[n].content[3].is_error

RECURSIVE Joined(_, _, _)
\* The texts of the text blocks of content, in order, sep between them.
Joined(content, sep, first) ==
    IF content = <<>> THEN <<>>
    ELSE IF Head(content).type # "text" THEN Joined(Tail(content), sep, first)
    ELSE (IF first THEN <<>> ELSE sep) \o Head(content).text
             \o Joined(Tail(content), sep, FALSE)

\* C5 as stated: the value returned is the concatenation of the text blocks
\* of the final assistant turn.
C5_ReturnsConcatenation ==
    pc = "done" =>
        /\ response.stop_reason # "tool_use"
        /\ final_text = Joined(response.content, <<>>, TRUE)

\* C5 amended: process_query returns on a stop reason other than tool_use,
\* and the value returned is the texts of the text blocks of that final
\* turn, in order, with a newline between consecutive texts.
C5_ReturnsTextsJoinedByNewline ==
    pc = "done" =>
        /\ response.stop_reason # "tool_use"
        /\ final_text = Joined(response.content, <<"\n">>, TRUE)

\* C5 witness: process_query returned on end_turn, the final turn holding a
\* text block, a block that is no text, and another text block.
C5_FinalTurnTwoTexts ==
    /\ pc = "done"
    /\ response.stop_reason = "end_turn"
    /\ Len(response.content) = 3
    /\ response.content[1].type = "text"
    /\ response.content[2].type # "text"
    /\ response.content[3].type = "text"

\* The tool_use blocks among the first k blocks of the current response.
ToolUsesBefore(k) ==
    Cardinality({i \in 1..k : IsToolUse(response.content[i])})

\* C6: at most one session request is outstanding; it is the request of
\* the block the loop stands at, sent after every earlier tool_use block of
\* the turn got its result; an elicitation exists only inside the
\* outstanding request, and when the loop moves to the next block neither a
\* request nor an elicitation is open.
C6_OneRequestAtATime ==
    /\ Cardinality(pending) <= 1
    /\ pending # {} =>
           /\ pc = "await"
           /\ pending = {AwaitedRequest}
           /\ Len(tool_results) = ToolUsesBefore(idx - 1)
    /\ el_phase # "none" => pending # {}
    /\ pc # "await" => pending = {} /\ el_phase = "none"

\* C6 witness: the request of the second tool_use block of a turn is
\* outstanding, its nested elicitation answered, the first block's result in.
C6_SecondRequestPending ==
    /\ pc = "await"
    /\ Len(tool_results) = 1
    /\ el_phase = "answered"
    /\ Cardinality(pending) = 1

\* C27: within one process_query run the conversation starts with the one
\* user turn that holds the query and alternates user and assistant turns;
\* every step leaves the turns it found as they were, and only appends; an
\* assistant turn is appended with the whole content of the model's answer,
\* text and tool_use blocks alike; every model call is made on a conversation
\* whose last turn is a user turn.
C27_AppendOnlyAlternating ==
    /\ [](/\ Len(messages) >= 1
          /\ messages[1] = [role |-> "user", content |-> <<QueryBlock>>]
          /\ \A k \in 1..Len(messages) :
                 messages[k].role = IF k % 2 = 1 THEN "user" ELSE "assistant"
          /\ pc = "call_model" => messages[Len(messages)].role = "user")
    /\ [][/\ Len(messages') >= Len(messages)
          /\ SubSeq(messages', 1, Len(messages)) = messages
          /\ Len(messages') <= Len(messages) + 1
          /\ (Len(messages') > Len(messages)
                  /\ messages'[Len(messages')].role = "assistant") =>
                 messages'[Len(messages')].content = response'.content]_vars

\* An assistant turn that mixes a text and a tool_use block is in the
\* conversation, followed by the user turn of its results, and the model is
\* about to be called again.
C27_MixedTurnKept ==
    /\ pc = "call_model"
    /\ Len(messages) = 3
    /\ Len(messages[2].content) = 2
    /\ messages[2].content[1].type = "text"
    /\ messages[2].content[2].type = "tool_use"

(***************************************************************************)
(* Properties of the elicitation handler (checked under ElicitSpec).       *)
(***************************************************************************)
\* What the claims speak about: the i-th collected input (user_input, the
\* line after strip()), the declared type of the i-th field, its stored value.
UserInput(i) == Strip(el_inputs[i])
FieldType(i) == DictGet(el_params[i].info, "type", "string")
FieldIdx == 1..Len(el_params)
Stored(i) == el_out.content[el_params[i].name]
Handled == el_out.status # "none"
Returned == el_out.status = "returned"

\* C7 as stated: an empty input for any field makes the result Declined at
\* once, with no data and no further prompt; non-empty inputs for every
\* field give Accepted (a string field holding the input).
C7_DeclinedOnEmptyInput ==
    Handled =>
        LET empty == {i \in FieldIdx : UserInput(i) = <<>>}
        IN  IF empty # {}
            THEN /\ Returned
                 /\ el_out.action = "decline"
                 /\ el_out.content = EmptyDict
                 /\ \A i \in empty : el_out.prompted <= i
            ELSE /\ Returned
                 /\ el_out.action = "accept"
                 /\ \A i \in FieldIdx :
                        FieldType(i) = "string" => Stored(i) = StrVal(UserInput(i))

\* C7 amended: the handler has no decline path.  An empty input is stored
\* like any other (a string field stores the empty string) and every field
\* is still prompted; a schema without integer and number fields always
\* gives a result; every result is Accepted.
C7_NeverDeclines ==
    Handled =>
        /\ el_out.action # "decline"
        /\ (\A i \in FieldIdx : FieldType(i) \notin {"integer", "number"})
               => Returned
        /\ Returned =>
               /\ el_out.action = "accept"
               /\ el_out.prompted = Len(el_params)
               /\ \A i \in FieldIdx :
                      FieldType(i) = "string" => Stored(i) = StrVal(UserInput(i))

\* C7 witness: a result for a schema whose string field got an empty input
\* while another field got "report.md".
C7_EmptyInputAccepted ==
    /\ Returned
    /\ el_out.action = "accept"
    /\ \E i \in FieldIdx : FieldType(i) = "string" /\ UserInput(i) = <<>>
    /\ \E i \in FieldIdx :
           UserInput(i) = <<"r", "e", "p", "o", "r", "t", ".", "m", "d">>

\* C8: every result is Declined, or Accepted with data whose key set is
\* exactly the set of field names the schema declares.
C8_NoPartialAcceptance ==
    Returned =>
        \/ el_out.action = "decline"
        \/ /\ el_out.action = "accept"
           /\ DOMAIN el_out.content = {el_params[i].name : i \in FieldIdx}

\* C8 witness: a result for a schema of two fields or more, one of which got
\* an empty input and one an input that does not convert to its type.
C8_TwoFieldsCollected ==
    /\ Returned
    /\ Len(el_params) >= 2
    /\ \E i \in FieldIdx : UserInput(i) = <<>>
    /\ \E i \in FieldIdx :
           FieldType(i) = "integer" /\ UserInput(i) = <<"a", "b", "c">>

\* C9: an integer or number field stores the parsed number when the
\* (non-empty) input parses and the input string when it does not, and the
\* handler returns a result in both cases.
C9_LenientConversion ==
    Handled =>
        \A i \in FieldIdx :
            UserInput(i) # <<>> =>
                /\ FieldType(i) = "integer" =>
                       /\ Returned
                       /\ Stored(i) = IF IsIntLiteral(UserInput(i))
                                      THEN PyInt(UserInput(i))
                                      ELSE StrVal(UserInput(i))
                /\ FieldType(i) = "number" =>
                       /\ Returned
                       /\ Stored(i) = IF IsFloatLiteral(UserInput(i))
                                      THEN PyFloat(UserInput(i))
                                      ELSE StrVal(UserInput(i))

\* C10: a boolean field stores true exactly when the lower-cased input is
\* "true", "yes" or "1"; a field whose type is missing or is none of
\* integer, number, boolean stores the input text.
C10_BooleanAndDefaultString ==
    Returned =>
        \A i \in FieldIdx :
            /\ FieldType(i) = "boolean" =>
                   Stored(i) = BoolVal(Lower(UserInput(i)) \in
                       {<<"t", "r", "u", "e">>, <<"y", "e", "s">>, <<"1">>})
            /\ ("type" \notin DOMAIN el_params[i].info
                    \/ FieldType(i) \notin {"integer", "number", "boolean"})
                   => Stored(i) = StrVal(UserInput(i))

\* C10 witness: a result with a boolean field answered "Yes" and a field
\* without a declared type.
C10_BooleanAndUntyped ==
    /\ Returned
    /\ \E i \in FieldIdx :
           FieldType(i) = "boolean" /\ UserInput(i) = <<"Y", "e", "s">>
    /\ \E i \in FieldIdx :
           "type" \notin DOMAIN el_params[i].info /\ UserInput(i) # <<>>

(***************************************************************************)
(* Properties of getting a prompt (checked under PromptSpec).              *)
(***************************************************************************)
\* The required arguments the provider's descriptor of name declares.
RequiredArguments(name) ==
    LET args == LookupPrompt(provider.prompts, name).arguments
    IN  {args[i].name : i \in {j \in 1..Len(args) : args[j].required}}

\* C11: in both modes, no get_prompt request goes to the provider while an
\* argument its descriptor declares required is missing from the request,
\* and the getting then ends in a validation error of the client.
C11_RequiredArgumentsValidated ==
    /\ \A r \in prompt_sent : RequiredArguments(r.name) \subseteq DOMAIN r.arguments
    /\ prompt_out = "required" => prompt_sent = {}
    /\ prompt_out \in {"result", "printed"} =>
           RequiredArguments(prompt_name) \subseteq DOMAIN arguments

\* C12: prompt() called with a name the provider does not list returns as
\* not found (or with the failure of the listing itself): no argument is
\* asked for, no get_prompt request is sent, process_query is not called.
C12_UnknownPromptNotFound ==
    (client = "client" /\ Named(provider.prompts, prompt_name) = {}) =>
        /\ prompt_pc \in {"list_prompts", "returned"}
        /\ prompt_pc = "returned" => prompt_out \in {"not_found", "server_error"}
        /\ arg_idx = 0
        /\ arguments = EmptyDict
        /\ prompt_sent = {}
        /\ ~model_called

\* C12 witness: prompt("documentation_generator") returned not found from a
\* provider that lists other prompts.
C12_NotFoundAmongOthers ==
    /\ client = "client"
    /\ prompt_pc = "returned"
    /\ prompt_out = "not_found"
    /\ prompt_name = "documentation_generator"
    /\ provider.prompts # <<>>

(***************************************************************************)
(* Properties of the tool catalog (checked under CatalogSpec).             *)
(***************************************************************************)
\* tools_response.tools was received in the running query.
ToolsListed ==
    cat_pc \in {"list_prompts", "list_templates", "call_model", "round",
                "returned"}

\* The catalog of the running query is complete.
Built == cat_pc \in {"call_model", "round", "returned"}

\* The names of the entries of a catalog, in order.
Names(catalog) == [i \in 1..Len(catalog) |-> catalog[i].name]

\* The entries of a catalog that stand for the provider tools lst.
ProviderPart(catalog, lst) == SubSeq(catalog, 1, Len(lst))

\* C13 as stated: the catalog begins with one entry per provider tool, in
\* provider order, each with the tool's name, its input schema and its
\* description, "MCP Tool" standing in only for an absent description.
C13_DefaultOnlyWhenAbsent ==
    ToolsListed =>
        /\ Len(available_tools) >= Len(listed)
        /\ \A i \in 1..Len(listed) :
               /\ available_tools[i].name = listed[i].name
               /\ available_tools[i].input_schema = listed[i].inputSchema
               /\ available_tools[i].description =
                      IF listed[i].description = NoneVal
                      THEN StrVal(<<"MCP Tool">>)
                      ELSE listed[i].description

\* C13 amended: as stated, except that "MCP Tool" stands in for a
\* description that is absent or empty.
C13_DefaultWhenAbsentOrEmpty ==
    ToolsListed =>
        /\ Len(available_tools) >= Len(listed)
        /\ \A i \in 1..Len(listed) :
               /\ available_tools[i].name = listed[i].name
               /\ available_tools[i].input_schema = listed[i].inputSchema
               /\ available_tools[i].description =
                      IF listed[i].description \in {NoneVal, StrVal(<<>>)}
                      THEN StrVal(<<"MCP Tool">>)
                      ELSE listed[i].description

\* C13 witness: a complete catalog of three provider tools: one without a
\* description, one with a text, one with an empty description.
C13_ThreeKindsOfDescription ==
    /\ Built
    /\ Len(listed) = 3
    /\ listed[1].description = NoneVal
    /\ Truthy(listed[2].description)
    /\ listed[3].description = StrVal(<<>>)

\* C14: no model call is made before the catalog of the run is complete;
\* every model call of a run is given the catalog built from what the
\* provider listed at the start of that run, the same for all its calls and
\* the one the run holds, whatever the provider lists by the time of the call.
C14_OneSnapshotPerRun ==
    /\ ~Built /\ cat_pc # "raised" => CallsOfRun = {}
    /\ \A i \in 1..Len(model_calls) :
           /\ ProviderPart(model_calls[i].tools, model_calls[i].listed)
                  = CatalogTools(model_calls[i].listed)
           /\ \A j \in 1..Len(model_calls) :
                  model_calls[i].run = model_calls[j].run =>
                      /\ model_calls[i].tools = model_calls[j].tools
                      /\ model_calls[i].listed = model_calls[j].listed
    /\ \A i \in CallsOfRun :
           Built => /\ model_calls[i].tools = available_tools
                    /\ model_calls[i].listed = listed

\* C14 witness: the second run is in a round after its first model call;
\* the provider's tools have changed since that run listed them, and the
\* catalog of the run differs from the one the first run gave the model.
C14_ChangeMidQueryAndNextRun ==
    /\ runs = 2
    /\ cat_pc = "round"
    /\ CallsOfRun # {}
    /\ provider.tools # listed
    /\ \E i \in 1..Len(model_calls) :
           model_calls[i].run = 1 /\ model_calls[i].tools # available_tools

C16_BothMetaToolsAlways ==
    Built =>
        Names(available_tools) =
            IF client = "client" THEN Names(listed)
            ELSE Names(listed) \o <<"get_prompt", "read_resource">>

\* C16 amended: the complete catalog of client.py is exactly the entries of
\* the provider tools; that of openai_client.py is those entries, then
\* get_prompt only if the provider lists a prompt, then read_resource.
C16_GetPromptOnlyWithPrompts ==
    Built =>
        available_tools =
            IF client = "client" THEN CatalogTools(listed)
            ELSE CatalogTools(listed)
                     \o (IF provider.prompts # <<>>
                         THEN <<GetPromptTool(provider.prompts)>> ELSE <<>>)
                     \o <<ReadResourceTool(provider.resourceTemplates)>>

\* C16 witness: the complete catalog of openai_client.py for a provider
\* that lists tools and no prompt.
C16_ProviderWithoutPrompts ==
    /\ client = "openai_client"
    /\ Built
    /\ provider.prompts = <<>>
    /\ listed # <<>>

(***************************************************************************)
(* Properties of main (checked under MainSpec).                            *)
(***************************************************************************)
ChainEdges ==
    { <<"Disconnected", "Connecting">>,
      <<"Connecting", "Ready">>,
      <<"Ready", "Closed">> }

\* The outcomes of the queries and menu actions so far, as a set.
Outcomes == {outcomes[i] : i \in 1..Len(outcomes)}

\* main is over: it returned, or an exception left it.
MainEnded == main_pc \in {"exited", "crashed"}

\* C17, as stated: the session moves only along Disconnected -> Connecting
\* -> Ready -> Closed, the chat loop runs on a Ready session, and requests
\* are issued in Ready only.
C17_OnlyAlongTheChain ==
    /\ edges \subseteq ChainEdges
    /\ InChatLoop => session_state = "Ready"
    /\ request_states \subseteq {"Ready"}

\* C17, amended: the session moves only forward, along Disconnected ->
\* Connecting -> Ready -> Closed, or from Connecting straight to Closed when
\* connect failed and cleanup closed what it had opened (then no request was
\* ever issued); connect completes before the chat loop issues any request,
\* and every request is issued in Ready.
C17_ForwardOnlyReadyBeforeRequests ==
    /\ edges \subseteq ChainEdges \cup {<<"Connecting", "Closed">>}
    /\ <<"Connecting", "Closed">> \in edges =>
           /\ <<"Connecting", "Ready">> \notin edges
           /\ "ConnectError" \in reported \/ exc = "ConnectError"
           /\ request_states = {}
           /\ outcomes = <<>>
    /\ InChatLoop => session_state = "Ready"
    /\ request_states \subseteq {"Ready"}

\* A whole run: connected, requests issued, cleaned up after quit.
C17_RequestsBetweenConnectAndCleanup ==
    /\ main_pc = "exited"
    /\ edges = ChainEdges
    /\ request_states = {"Ready"}
    /\ session_state = "Closed"

\* C18, as stated: whenever main is over, cleanup has run and released the
\* session, every failure was reported to the operator, and no exception
\* left main.
C18_CleanupRunsAndFailureReported ==
    MainEnded =>
        /\ cleaned
        /\ session_state \in {"Disconnected", "Closed"}
        /\ <<"Connecting", "Ready">> \notin edges =>
               reported \cap {"ValueError", "ConnectError"} # {}
        /\ Outcomes \cap QueryFailures \subseteq reported
        /\ main_pc = "exited"

\* C19: a failure that ends a query is reported and ends nothing else: while
\* the chat loop runs, the session is Ready and not cleaned up and no
\* exception is pending, the next query is accepted, and no query failure is
\* ever the exception that ends the chat loop.
C19_QueryFailureFatalToQueryOnly ==
    /\ Outcomes \cap QueryFailures \subseteq reported
    /\ InChatLoop =>
           /\ session_state = "Ready"
           /\ ~cleaned
           /\ exc = "none"
    /\ main_pc = "converse" /\ Len(outcomes) < MaxQueries => ENABLED StartQuery
    /\ exc \notin QueryFailures
    /\ QueryFailures \cap reported # {} =>
           \/ InChatLoop
           \/ main_pc \in {"finally", "exited"} /\ exc = "none"
           \/ main_pc = "except" /\ exc = "EOFError"

\* A query failed, and the next one ran and returned on the same session.
C19_QueryAfterFailedQuery ==
    /\ Len(outcomes) >= 2
    /\ outcomes[1] \in QueryFailures
    /\ outcomes[2] = "returned"
    /\ main_pc = "converse"
    /\ session_state = "Ready"
    /\ edges = {<<"Disconnected", "Connecting">>, <<"Connecting", "Ready">>}

\* The extensions the claim names.
SupportedScript(path) ==
    \/ EndsWith(path, <<".", "p", "y">>)
    \/ EndsWith(path, <<".", "j", "s">>)
    \/ EndsWith(path, <<".", "t", "s">>)

\* C26, as stated: once connect_to_server has looked at the path, a path
\* that ends in none of .py, .js, .ts has raised ValueError with nothing
\* launched and the session unset, and a path that ends in one of them has
\* gone on to the launch, with python for .py and node otherwise, in both
\* clients.
C26_ExtensionValidatedBeforeLaunch ==
    main_pc # "start" =>
        IF SupportedScript(server_script_path)
        THEN /\ spawned = IF EndsWith(server_script_path, <<".", "p", "y">>)
                          THEN "python" ELSE "node"
             /\ <<"Disconnected", "Connecting">> \in edges
        ELSE /\ spawned = "none"
             /\ edges = {}
             /\ session_state = "Disconnected"
             /\ exc = "ValueError" \/ "ValueError" \in reported

(***************************************************************************)
(* Properties of write_file (checked under WriteSpec).                     *)
(***************************************************************************)
RECURSIVE Concat(_)
Concat(seqs) == IF seqs = <<>> THEN <<>> ELSE Head(seqs) \o Concat(Tail(seqs))

\* The reports made by the chunk writes.
ChunkReports == {k \in 1..Len(reports) : reports[k].message = "Writing progress"}

\* C28: the progress values reported by the chunk writes are strictly
\* increasing; no report exceeds total = len(content); when write_file has
\* returned, its last report has progress = total and the chunks written
\* concatenate, in order, to the content; for the empty content no chunk
\* is written and the one report is 0 of 0.
C28_ProgressIncreasesToTotal ==
    /\ \A j, k \in ChunkReports :
           j < k => reports[j].progress < reports[k].progress
    /\ \A k \in 1..Len(reports) :
           /\ reports[k].total = Len(w_content)
           /\ reports[k].progress <= reports[k].total
           /\ reports[k].progress >= 0
    /\ Len(chunks) = Cardinality(ChunkReports)
    /\ w_pc = "returned" =>
           /\ reports # <<>>
           /\ reports[Len(reports)].progress = Len(w_content)
           /\ Concat(chunks) = w_content
           /\ w_content = <<>> =>
                  /\ chunks = <<>>
                  /\ reports = <<Report(0, 0, "Write complete")>>

\* A content whose length is no multiple of the chunk size was written:
\* the last chunk is shorter than the others.
C28_LastChunkShorter ==
    /\ w_pc = "returned"
    /\ Len(chunks) >= 2
    /\ Len(chunks[Len(chunks)]) < Len(chunks[1])
    /\ Len(chunks[1]) >= 2

(***************************************************************************)
(* Properties of the provider (checked under ServerSpec).                  *)
(***************************************************************************)
\* The positions of a message in the exchange of the running request.
At(e) == {k \in 1..Len(events) : events[k] = e}

\* The provider has answered the request srv_req.
Answered == srv_pc = "idle" /\ srv_req.name # "none"

\* C22: an elicitation the provider issues while it serves a request is
\* answered by the handler, and that answer is sent back, before the
\* response of the request is delivered; until then the request has no
\* response; a request has one elicitation at most, and only
\* documentation_generator has one.
C22_ElicitationAnsweredBeforeResponse ==
    /\ Cardinality(At("elicitation")) <= 1
    /\ At("elicitation") # {} => srv_req.name = "documentation_generator"
    /\ \A a \in At("elicitation"), r \in At("response") :
           \E h \in At("handler"), e \in At("elicitation_result") :
               a < h /\ h < e /\ e < r
    /\ srv_pc \in {"elicit", "resume"} =>
           /\ At("response") = {}
           /\ srv_out = NoAnswer
    /\ At("elicitation_result") # {} => el_result # NoElicitation

\* documentation_generator elicited, the operator named a file, and the
\* prompt came back after the handler's answer.
C22_PromptAfterElicitation ==
    /\ events = <<"request", "elicitation", "handler", "elicitation_result",
                  "response">>
    /\ el_result.action = "accept"
    /\ srv_out.key = "prompt"

\* The entries outside of the base directory are those of the start.
OutsideUntouched ==
    \A loc \in DOMAIN fs \cup DOMAIN EmptyBase :
        ~Inside(loc) => loc \in DOMAIN fs /\ loc \in DOMAIN EmptyBase
                            /\ fs[loc] = EmptyBase[loc]

\* C23: get_path yields a location inside the base directory for every path
\* that resolves inside it, the very location the path leads to, and rejects
\* every path that resolves outside of it; a tool or prompt given such a
\* path raises ValueError and a resource answers with an error; no
\* operation on a file is ever performed outside of the base directory, and
\* nothing outside of it changes.
C23_NoOperationOutsideBase ==
    /\ \A p \in PathInputs :
           IF Inside(Locate(p, fs))
           THEN /\ get_path(p, fs).ok
                /\ Locate(get_path(p, fs).path, fs) = Locate(p, fs)
           ELSE ~get_path(p, fs).ok
    /\ \A o \in touched : Inside(o.loc)
    /\ OutsideUntouched
    /\ Answered /\ ~Inside(Locate(srv_req.path, fs)) =>
           /\ touched = {}
           /\ srv_req.name \in {"write_file", "code_review"} =>
                  srv_out = Raises("ValueError")
           /\ srv_req.name = "read_file_resource" =>
                  srv_out = Returns("error", "ValueError")

\* write_file was given a path that leaves the base directory through a
\* link, and refused it.
C23_LinkOutOfBaseRejected ==
    /\ Answered
    /\ srv_req = Request_("write_file", RelPath(<<"l", "c">>))
    /\ KindAt(fs, <<"w", "l">>) = "link"
    /\ srv_out = Raises("ValueError")

\* C24: the file and directory resources never raise: each answers with its
\* success mapping or with a mapping {error: string}.
C24_ResourcesNeverRaise ==
    /\ Answered /\ srv_req.name = "read_file_resource" =>
           /\ srv_out.status = "returned"
           /\ srv_out.key \in {"file_content", "error"}
    /\ Answered /\ srv_req.name = "list_files_resource" =>
           /\ srv_out.status = "returned"
           /\ srv_out.key \in {"items", "error"}

\* The file resource was given a path outside of the base directory and
\* answered with an error mapping.
C24_EscapingPathAnsweredWithError ==
    /\ Answered
    /\ srv_req = Request_("read_file_resource", AbsPath(<<"x", "c">>))
    /\ srv_out = Returns("error", "ValueError")

\* C25, as stated: dir://. answers {items} with exactly one item per entry
\* of the base directory, each with its name, its type ("directory" for a
\* directory, "file" otherwise), its size and its path relative to the base
\* directory.
C25_OneItemPerEntry ==
    Answered /\ srv_req.name = "list_files_resource" =>
        /\ srv_out.key = "items"
        /\ Cardinality(srv_out.items) = Cardinality(Entries(fs, BASE_DIR))
        /\ \A d \in Entries(fs, BASE_DIR) :
               \E it \in srv_out.items :
                   /\ it.name = d[Len(d)]
                   /\ it.path = <<d[Len(d)]>>
                   /\ it.type = IF IsDir(fs, AbsPath(d)) THEN "directory"
                                ELSE "file"
                   /\ it.size = fs[Locate(AbsPath(d), fs)].size

\* The error messages delete_file returns.
DeleteErrors ==
    {"Error: is a directory, not a file", "File not found", "Error deleting file"}

\* C29: delete_file never raises; it changes the file system only by
\* removing its target, and only when the target is a regular file inside
\* the base directory; when the target is a directory, is missing or is
\* outside of the base directory, the file system is unchanged and an error
\* message is the result.
C29_DeletesOnlyRegularFileInBase ==
    [][srv_req'.name = "delete_file" /\ served' = served + 1 =>
           LET loc == Locate(srv_req'.path, fs)
               target == Inside(loc) /\ KindAt(fs, loc) = "file"
           IN  /\ srv_out'.status = "returned"
               /\ srv_out'.key = "text"
               /\ ~target => fs' = fs /\ srv_out'.detail \in DeleteErrors
               /\ fs' # fs =>
                      /\ target
                      /\ fs' = [d \in DOMAIN fs \ {loc} |-> fs[d]]
                      /\ srv_out'.detail = "Successfully deleted file"
               /\ fs' = fs => srv_out'.detail \in DeleteErrors]_vars

\* delete_file was given a directory: it is still there, and the result is
\* the error message.
C29_DirectoryNotDeleted ==
    /\ Answered
    /\ srv_req = Request_("delete_file", RelPath(<<"b">>))
    /\ KindAt(fs, <<"w", "b">>) = "dir"
    /\ srv_out = Returns("text", "Error: is a directory, not a file")

\* C30: when the result of the elicitation is not an accepted one,
\* documentation_generator raises, reads no file and returns no prompt; it
\* returns a prompt only when an accepted result names a file that exists
\* inside the base directory.
C30_NoPromptWithoutAcceptedFile ==
    Answered /\ srv_req.name = "documentation_generator" =>
        /\ el_result.action # "accept" =>
               /\ srv_out.status = "raised"
               /\ touched = {}
        /\ srv_out.status = "returned" =>
               /\ srv_out.key = "prompt"
               /\ el_result.action = "accept"
               /\ LET loc == Locate(PathOf(el_result.data["file_path"].s), fs)
                  IN  /\ Inside(loc)
                      /\ KindAt(fs, loc) = "file"
                      /\ touched = {Op("read", loc)}
        /\ srv_out.status \in {"returned", "raised"}

\* The elicitation was declined and the prompt request failed.
C30_DeclinedFails ==
    /\ Answered
    /\ srv_req.name = "documentation_generator"
    /\ el_result.action = "decline"
    /\ srv_out = Raises("AttributeError")
    /\ touched = {}

====
